---- MODULE Spec2Model ----
(***************************************************************************)
(* rs9p: the per-connection dispatcher of the 9P2000.L server              *)
(* (crates/rs9p/src/srv.rs), its fid table, its reply path, and the        *)
(* reference backend unpfs (crates/unpfs/src/main.rs).                     *)
(*                                                                         *)
(* One connection is modelled.  The read loop of dispatch() decodes one    *)
(* frame at a time and spawns a task per message; a task runs              *)
(* dispatch_once() (shared read guard on the fid table while the backend   *)
(* future is awaited, exclusive write guard for the removal of a clunked   *)
(* fid and the insertion of a new fid) and then sends the reply through    *)
(* the writer.                                                             *)
(***************************************************************************)
EXTENDS Integers, Sequences, FiniteSets, TLC

(***************************************************************************)
(* Bounds of the model.                                                    *)
(***************************************************************************)
MaxFid == 1          \* client fids are 0..MaxFid
MaxReqs == 3         \* frames read on the connection
MaxUnpfsReqs == 4    \* frames read on the connection of the reference server
MaxReadReqs == 5     \* frames read on a connection that reads a file
MaxPairReqs == 2     \* frames read on each of two connections
MaxFrames == 1       \* frames decoded on the connection that reads raw bytes
MaxInflight == 2     \* tasks of the concurrent specification not yet finished
MaxWalk == 2         \* names in one Twalk
MaxDepth == 2        \* the --max-depth given to unpfs
FrameChunks == 2     \* writes to the transport that one frame may take

(***************************************************************************)
(* Program constants.                                                      *)
(***************************************************************************)
NOFID == -1          \* !0 as u32 (all bits set), outside the fids a client names here
NOTAG == 65535
P92000L == "9P2000.L"
\* the longest frame the framed reader and writer of dispatch() take: the
\* codec's limit, which the builders leave at its default of 8 MiB
max_frame_length == 8388608
IOHDRSZ == 24
VERSION_UNKNOWN == "unknown"

FidIds == 0 .. MaxFid

(***************************************************************************)
(* fcall.rs: the message union.  A body is a record whose typ field names  *)
(* the FCall variant and whose other fields are the variant's fields that  *)
(* the dispatcher reads.                                                   *)
(***************************************************************************)
\* T-messages that carry exactly one fid named `fid`
OneFidTypes ==
    {"TStatFs", "TlOpen", "TlCreate", "TSymlink", "TReadLink", "TGetAttr",
     "TSetAttr", "TxAttrCreate", "TReadDir", "TFSync", "TLock", "TGetLock",
     "TRead", "TWrite", "TClunk", "TRemove"}

\* T-messages that carry exactly one fid named `dfid`
OneDfidTypes == {"TMkNod", "TMkDir"}

TTypes ==
    OneFidTypes \cup OneDfidTypes \cup
    {"TRename", "TLink", "TRenameAt", "TUnlinkAt", "TxAttrWalk", "TAuth",
     "TAttach", "TVersion", "TFlush", "TWalk"}

\* MsgType::is_r
RTypes ==
    {"RlError", "RStatFs", "RlOpen", "RlCreate", "RSymlink", "RMkNod",
     "RRename", "RReadLink", "RGetAttr", "RSetAttr", "RxAttrWalk",
     "RxAttrCreate", "RReadDir", "RFSync", "RLock", "RGetLock", "RLink",
     "RMkDir", "RRenameAt", "RUnlinkAt", "RVersion", "RAuth", "RAttach",
     "RFlush", "RWalk", "RRead", "RWrite", "RClunk", "RRemove"}

is_r(fcall) == fcall.typ \in RTypes

\* FCall::newfid: the fid a message introduces, <<>> for None
newfid(body) ==
    CASE body.typ = "TxAttrWalk" -> <<body.newfid>>
      [] body.typ = "TAuth"      -> <<body.afid>>
      [] body.typ = "TAttach"    -> <<body.fid>>
      [] body.typ = "TWalk"      -> <<body.newfid>>
      [] OTHER                   -> <<>>

(***************************************************************************)
(* srv.rs, dispatch_once: the match on msg.body.  For each variant, the    *)
(* fids handed to get_fid, in the order of evaluation, whether get_newfid  *)
(* is called, and the Filesystem method whose future is built.             *)
(***************************************************************************)
\* The TAttach arm binds afid to _ and hands rattach None: no fid is looked
\* up for it
\* (variant: an afid other than NOFID is looked up, as FCall::fids lists it)
AttachAfidListed(body) == IF body.afid # NOFID THEN <<body.afid>> ELSE <<>>
AttachAfid(body) == <<>>

\* (variant: only the first fid of a message is looked up)
GetFidArgsFirstOnly(body) ==
    CASE body.typ \in OneFidTypes \cup {"TRename", "TxAttrWalk", "TWalk"} -> <<body.fid>>
      [] body.typ \in OneDfidTypes \cup {"TLink"} -> <<body.dfid>>
      [] body.typ = "TRenameAt"     -> <<body.olddirfid>>
      [] body.typ = "TUnlinkAt"     -> <<body.dirfd>>
      [] OTHER                      -> <<>>
GetFidArgs(body) ==
    CASE body.typ \in OneFidTypes   -> <<body.fid>>
      [] body.typ \in OneDfidTypes  -> <<body.dfid>>
      [] body.typ = "TRename"       -> <<body.fid, body.dfid>>
      [] body.typ = "TxAttrWalk"    -> <<body.fid>>
      [] body.typ = "TLink"         -> <<body.dfid, body.fid>>
      [] body.typ = "TRenameAt"     -> <<body.olddirfid, body.newdirfid>>
      [] body.typ = "TUnlinkAt"     -> <<body.dirfd>>
      [] body.typ = "TWalk"         -> <<body.fid>>
      [] body.typ = "TAttach"       -> AttachAfid(body)
      [] OTHER                      -> <<>>

UsesNewfid(body) == body.typ \in {"TxAttrWalk", "TAuth", "TAttach", "TWalk"}

MethodOf(body) ==
    CASE body.typ = "TStatFs"      -> "rstatfs"
      [] body.typ = "TlOpen"       -> "rlopen"
      [] body.typ = "TlCreate"     -> "rlcreate"
      [] body.typ = "TSymlink"     -> "rsymlink"
      [] body.typ = "TMkNod"       -> "rmknod"
      [] body.typ = "TRename"      -> "rrename"
      [] body.typ = "TReadLink"    -> "rreadlink"
      [] body.typ = "TGetAttr"     -> "rgetattr"
      [] body.typ = "TSetAttr"     -> "rsetattr"
      [] body.typ = "TxAttrWalk"   -> "rxattrwalk"
      [] body.typ = "TxAttrCreate" -> "rxattrcreate"
      [] body.typ = "TReadDir"     -> "rreaddir"
      [] body.typ = "TFSync"       -> "rfsync"
      [] body.typ = "TLock"        -> "rlock"
      [] body.typ = "TGetLock"     -> "rgetlock"
      [] body.typ = "TLink"        -> "rlink"
      [] body.typ = "TMkDir"       -> "rmkdir"
      [] body.typ = "TRenameAt"    -> "rrenameat"
      [] body.typ = "TUnlinkAt"    -> "runlinkat"
      [] body.typ = "TAuth"        -> "rauth"
      [] body.typ = "TAttach"      -> "rattach"
      [] body.typ = "TVersion"     -> "rversion"
      [] body.typ = "TFlush"       -> "rflush"
      [] body.typ = "TWalk"        -> "rwalk"
      [] body.typ = "TRead"        -> "rread"
      [] body.typ = "TWrite"       -> "rwrite"
      [] body.typ = "TClunk"       -> "rclunk"
      [] body.typ = "TRemove"      -> "rremove"
      [] OTHER                     -> "none"

\* The R-message each Filesystem method documents as its success reply
ReplyType(method) ==
    CASE method = "rstatfs"      -> "RStatFs"
      [] method = "rlopen"       -> "RlOpen"
      [] method = "rlcreate"     -> "RlCreate"
      [] method = "rsymlink"     -> "RSymlink"
      [] method = "rmknod"       -> "RMkNod"
      [] method = "rrename"      -> "RRename"
      [] method = "rreadlink"    -> "RReadLink"
      [] method = "rgetattr"     -> "RGetAttr"
      [] method = "rsetattr"     -> "RSetAttr"
      [] method = "rxattrwalk"   -> "RxAttrWalk"
      [] method = "rxattrcreate" -> "RxAttrCreate"
      [] method = "rreaddir"     -> "RReadDir"
      [] method = "rfsync"       -> "RFSync"
      [] method = "rlock"        -> "RLock"
      [] method = "rgetlock"     -> "RGetLock"
      [] method = "rlink"        -> "RLink"
      [] method = "rmkdir"       -> "RMkDir"
      [] method = "rrenameat"    -> "RRenameAt"
      [] method = "runlinkat"    -> "RUnlinkAt"
      [] method = "rauth"        -> "RAuth"
      [] method = "rattach"      -> "RAttach"
      [] method = "rversion"     -> "RVersion"
      [] method = "rflush"       -> "RFlush"
      [] method = "rwalk"        -> "RWalk"
      [] method = "rread"        -> "RRead"
      [] method = "rwrite"       -> "RWrite"
      [] method = "rclunk"       -> "RClunk"
      [] OTHER                   -> "RRemove"

(***************************************************************************)
(* Results of a Filesystem method: Ok(fcall) or Err(Error::No(errno)).     *)
(* dispatch() turns Err(e) into RlError{ecode: e.errno()}.                 *)
(***************************************************************************)
Ok(fcall) == [ok |-> TRUE, fcall |-> fcall, errno |-> "0"]
Err(e) == [ok |-> FALSE, fcall |-> [typ |-> "none"], errno |-> e]
\* Error::errno (error.rs): the errno of Error::No(e) is e
errno(e) == e
\* (variant: the error code is lost)
RlErrorZero(ecode) == [typ |-> "RlError", ecode |-> "0"]
RlError(ecode) == [typ |-> "RlError", ecode |-> ecode]

\* FId<T> as built for a new fid: the raw fid and Default::default() as aux
DefaultAux == [realpath |-> <<>>, file |-> FALSE, depth |-> 0]
FId(fid, aux) == [fid |-> fid, aux |-> aux]

\* Filesystem::rversion, the default implementation
\* (variant: the offered version is echoed whatever it is)
rversionEcho(msize, ver) ==
    Ok([typ |-> "RVersion", msize |-> msize, version |-> ver])
rversion(msize, ver) ==
    Ok([typ |-> "RVersion", msize |-> msize,
        version |-> IF ver = P92000L THEN ver ELSE VERSION_UNKNOWN])

(***************************************************************************)
(* serialize.rs: the wire codec.  Bytes are the numbers 0 .. 255 and a     *)
(* buffer is a sequence of bytes.  Integers are written little-endian; a   *)
(* String is held as one of a few named texts, written as its UTF-8 bytes. *)
(***************************************************************************)
\* write_u8, write_u16, write_u32, write_u64 with LittleEndian: the width
\* low-order bytes of n, lowest first
RECURSIVE LE(_, _)
LE(n, width) ==
    IF width = 0 THEN <<>> ELSE <<n % 256>> \o LE(n \div 256, width - 1)

\* read_u8, read_u16, read_u32, read_u64 with LittleEndian
RECURSIVE FromLE(_)
FromLE(bytes) ==
    IF bytes = <<>> THEN 0 ELSE Head(bytes) + 256 * FromLE(Tail(bytes))

\* size_of of the integer types
Width == [u8 |-> 1, u16 |-> 2, u32 |-> 4, u64 |-> 8]

\* the bits a bitflags type defines: from_bits_truncate keeps these, all of
\* them low-order bits
AllBits == [QIdType |-> 256, LockType |-> 4, LockFlag |-> 4, LockStatus |-> 4,
            GetAttrMask |-> 16384, SetAttrMask |-> 512]
BitsWidth == [QIdType |-> 1, LockType |-> 1, LockFlag |-> 4, LockStatus |-> 1,
              GetAttrMask |-> 8, SetAttrMask |-> 4]

\* String::as_bytes of the texts the messages carry
StrBytes ==
    [s \in {"", "a", "d", "f", ".", "..", "9P2000.L", "9P2000", "unknown"} |->
        CASE s = "" -> <<>>
          [] s = "a" -> <<97>>
          [] s = "." -> <<46>>
          [] s = ".." -> <<46, 46>>
          [] s = "d" -> <<100>>
          [] s = "f" -> <<102>>
          [] s = "9P2000.L" -> <<57, 80, 50, 48, 48, 48, 46, 76>>
          [] s = "9P2000" -> <<57, 80, 50, 48, 48, 48>>
          [] s = "unknown" -> <<117, 110, 107, 110, 111, 119, 110>>]

\* String::from_utf8 on one- and two-byte sequences: a byte below 128, or a
\* lead byte 194 .. 223 followed by a continuation byte 128 .. 191
RECURSIVE Utf8Valid(_)
Utf8Valid(bytes) ==
    IF bytes = <<>> THEN TRUE
    ELSE IF Head(bytes) < 128 THEN Utf8Valid(Tail(bytes))
    ELSE /\ Head(bytes) \in 194 .. 223
         /\ Len(bytes) >= 2
         /\ bytes[2] \in 128 .. 191
         /\ Utf8Valid(Tail(Tail(bytes)))

\* the result of a decode: Ok(value) with the bytes left in the reader, or
\* an io::Error
DecOk(val, rest) == [ok |-> TRUE, val |-> val, rest |-> rest, err |-> "0"]
DecErr(e) == [ok |-> FALSE, val |-> 0, rest |-> <<>>, err |-> e]

\* read_exact: size bytes of the reader, or UnexpectedEof
read_exact(bytes, size) ==
    IF Len(bytes) < size THEN DecErr("UnexpectedEof")
    ELSE DecOk(SubSeq(bytes, 1, size), SubSeq(bytes, size + 1, Len(bytes)))

\* QId::size, DirEntry::size
QIdSize == 13
DirEntrySize(e) == QIdSize + 8 + 1 + 2 + Len(StrBytes[e.name])

\* DirEntryData::size: the sum of the sizes of the entries
RECURSIVE DirEntryDataSize(_)
DirEntryDataSize(data) ==
    IF data = <<>> THEN 0
    ELSE DirEntrySize(Head(data)) + DirEntryDataSize(Tail(data))

\* impl Encodable for QId, StatFs, Time, Stat, SetAttr, DirEntry, Flock,
\* Getlock: the fields in the order they are written
StructEncLayout(kind) ==
    CASE kind = "qid" -> <<<<"typ", "u8">>, <<"version", "u32">>, <<"path", "u64">>>>
      [] kind = "statfs" ->
            <<<<"typ", "u32">>, <<"bsize", "u32">>, <<"blocks", "u64">>,
              <<"bfree", "u64">>, <<"bavail", "u64">>, <<"files", "u64">>,
              <<"ffree", "u64">>, <<"fsid", "u64">>, <<"namelen", "u32">>>>
      [] kind = "time" -> <<<<"sec", "u64">>, <<"nsec", "u64">>>>
      [] kind = "stat" ->
            <<<<"mode", "u32">>, <<"uid", "u32">>, <<"gid", "u32">>,
              <<"nlink", "u64">>, <<"rdev", "u64">>, <<"size", "u64">>,
              <<"blksize", "u64">>, <<"blocks", "u64">>, <<"atime", "time">>,
              <<"mtime", "time">>, <<"ctime", "time">>>>
      [] kind = "setattr" ->
            <<<<"mode", "u32">>, <<"uid", "u32">>, <<"gid", "u32">>,
              <<"size", "u64">>, <<"atime", "time">>, <<"mtime", "time">>>>
      [] kind = "direntry" ->
            <<<<"qid", "qid">>, <<"offset", "u64">>, <<"typ", "u8">>,
              <<"name", "string">>>>
      [] kind = "flock" ->
            <<<<"typ", "u8">>, <<"flags", "u32">>, <<"start", "u64">>,
              <<"length", "u64">>, <<"proc_id", "u32">>, <<"client_id", "string">>>>
      [] kind = "getlock" ->
            <<<<"typ", "u8">>, <<"start", "u64">>, <<"length", "u64">>,
              <<"proc_id", "u32">>, <<"client_id", "string">>>>

\* impl Decodable for the same types: the fields in the order they are read
StructDecLayout(kind) ==
    CASE kind = "qid" -> <<<<"typ", "QIdType">>, <<"version", "u32">>, <<"path", "u64">>>>
      [] kind = "statfs" ->
            <<<<"typ", "u32">>, <<"bsize", "u32">>, <<"blocks", "u64">>,
              <<"bfree", "u64">>, <<"bavail", "u64">>, <<"files", "u64">>,
              <<"ffree", "u64">>, <<"fsid", "u64">>, <<"namelen", "u32">>>>
      [] kind = "time" -> <<<<"sec", "u64">>, <<"nsec", "u64">>>>
      [] kind = "stat" ->
            <<<<"mode", "u32">>, <<"uid", "u32">>, <<"gid", "u32">>,
              <<"nlink", "u64">>, <<"rdev", "u64">>, <<"size", "u64">>,
              <<"blksize", "u64">>, <<"blocks", "u64">>, <<"atime", "time">>,
              <<"mtime", "time">>, <<"ctime", "time">>>>
      [] kind = "setattr" ->
            <<<<"mode", "u32">>, <<"uid", "u32">>, <<"gid", "u32">>,
              <<"size", "u64">>, <<"atime", "time">>, <<"mtime", "time">>>>
      [] kind = "direntry" ->
            <<<<"qid", "qid">>, <<"offset", "u64">>, <<"typ", "u8">>,
              <<"name", "string">>>>
      [] kind = "flock" ->
            <<<<"typ", "LockType">>, <<"flags", "LockFlag">>, <<"start", "u64">>,
              <<"length", "u64">>, <<"proc_id", "u32">>, <<"client_id", "string">>>>
      [] kind = "getlock" ->
            <<<<"typ", "LockType">>, <<"start", "u64">>, <<"length", "u64">>,
              <<"proc_id", "u32">>, <<"client_id", "string">>>>

\* Encodable::encode, by the type of the value
RECURSIVE Encode(_, _)
RECURSIVE EncodeFields(_, _)
RECURSIVE EncodeAll(_, _)
Encode(kind, v) ==
    CASE kind \in DOMAIN Width -> LE(v, Width[kind])
      [] kind = "string" -> LE(Len(StrBytes[v]) % 65536, 2) \o StrBytes[v]
      [] kind = "data" -> LE(Len(v), 4) \o v
      [] kind = "strings" -> LE(Len(v) % 65536, 2) \o EncodeAll("string", v)
      [] kind = "qids" -> LE(Len(v) % 65536, 2) \o EncodeAll("qid", v)
      [] kind = "direntrydata" -> LE(DirEntryDataSize(v), 4) \o EncodeAll("direntry", v)
      [] OTHER -> EncodeFields(StructEncLayout(kind), v)

\* Encoder << field << field ...
EncodeFields(layout, rec) ==
    IF layout = <<>> THEN <<>>
    ELSE Encode(Head(layout)[2], rec[Head(layout)[1]]) \o EncodeFields(Tail(layout), rec)

\* the fold over the elements of a Vec or of a DirEntryData
EncodeAll(kind, elems) ==
    IF elems = <<>> THEN <<>>
    ELSE Encode(kind, Head(elems)) \o EncodeAll(kind, Tail(elems))

\* the struct that a layout and the values read for its fields make
MkStruct(layout, vals) ==
    [name \in {layout[i][1] : i \in 1 .. Len(layout)} |->
        vals[CHOOSE i \in 1 .. Len(layout) : layout[i][1] = name]]

\* Decodable::decode, by the type of the value
RECURSIVE Decode(_, _)
RECURSIVE DecodeFields(_, _, _)
RECURSIVE DecodeN(_, _, _, _)
Decode(kind, bytes) ==
    CASE kind \in DOMAIN Width ->
            LET r == read_exact(bytes, Width[kind])
            IN  IF r.ok THEN DecOk(FromLE(r.val), r.rest) ELSE r
      [] kind \in DOMAIN AllBits ->
            LET r == read_exact(bytes, BitsWidth[kind])
            IN  IF r.ok THEN DecOk(FromLE(r.val) % AllBits[kind], r.rest) ELSE r
      [] kind = "string" ->
            LET len == Decode("u16", bytes) IN
            IF ~len.ok THEN len
            ELSE LET r == read_exact(len.rest, len.val) IN
                 IF ~r.ok THEN r
                 ELSE IF ~Utf8Valid(r.val) THEN DecErr("Invalid UTF-8 sequence")
                 ELSE DecOk(CHOOSE s \in DOMAIN StrBytes : StrBytes[s] = r.val, r.rest)
      [] kind = "data" ->
            LET len == Decode("u32", bytes)
            IN  IF ~len.ok THEN len ELSE read_exact(len.rest, len.val)
      [] kind = "strings" ->
            LET len == Decode("u16", bytes)
            IN  IF ~len.ok THEN len ELSE DecodeN("string", len.val, len.rest, <<>>)
      [] kind = "qids" ->
            LET len == Decode("u16", bytes)
            IN  IF ~len.ok THEN len ELSE DecodeN("qid", len.val, len.rest, <<>>)
      [] kind = "direntrydata" ->
            LET count == Decode("u32", bytes)
            IN  IF ~count.ok THEN count
                ELSE DecodeN("direntry", count.val, count.rest, <<>>)
      [] OTHER ->
            LET r == DecodeFields(StructDecLayout(kind), bytes, <<>>)
            IN  IF r.ok THEN DecOk(MkStruct(StructDecLayout(kind), r.val), r.rest) ELSE r

\* the fields of a struct literal, decoded in the order they are written
DecodeFields(layout, bytes, vals) ==
    IF Len(vals) = Len(layout) THEN DecOk(vals, bytes)
    ELSE LET r == Decode(layout[Len(vals) + 1][2], bytes)
         IN  IF r.ok THEN DecodeFields(layout, r.rest, Append(vals, r.val)) ELSE r

\* `for _ in 0..n { buf.push(decode()?) }`
DecodeN(kind, n, bytes, elems) ==
    IF n = 0 THEN DecOk(elems, bytes)
    ELSE LET r == Decode(kind, bytes)
         IN  IF r.ok THEN DecodeN(kind, n - 1, r.rest, Append(elems, r.val)) ELSE r

\* fcall.rs, MsgType: the type byte of each message type
MsgTypeByte ==
    [TlError |-> 6, RlError |-> 7,
     TStatFs |-> 8, RStatFs |-> 9, TlOpen |-> 12, RlOpen |-> 13,
     TlCreate |-> 14, RlCreate |-> 15, TSymlink |-> 16, RSymlink |-> 17,
     TMkNod |-> 18, RMkNod |-> 19, TRename |-> 20, RRename |-> 21,
     TReadLink |-> 22, RReadLink |-> 23, TGetAttr |-> 24, RGetAttr |-> 25,
     TSetAttr |-> 26, RSetAttr |-> 27, TxAttrWalk |-> 30, RxAttrWalk |-> 31,
     TxAttrCreate |-> 32, RxAttrCreate |-> 33, TReadDir |-> 40,
     RReadDir |-> 41, TFSync |-> 50, RFSync |-> 51, TLock |-> 52,
     RLock |-> 53, TGetLock |-> 54, RGetLock |-> 55, TLink |-> 70,
     RLink |-> 71, TMkDir |-> 72, RMkDir |-> 73, TRenameAt |-> 74,
     RRenameAt |-> 75, TUnlinkAt |-> 76, RUnlinkAt |-> 77, TVersion |-> 100,
     RVersion |-> 101, TAuth |-> 102, RAuth |-> 103, TAttach |-> 104,
     RAttach |-> 105, TFlush |-> 108, RFlush |-> 109, TWalk |-> 110,
     RWalk |-> 111, TRead |-> 116, RRead |-> 117, TWrite |-> 118,
     RWrite |-> 119, TClunk |-> 120, RClunk |-> 121, TRemove |-> 122,
     RRemove |-> 123]

\* impl Encodable for Msg: the fields written after the type byte and the
\* tag, in order, each with the type it is written as (a bitflags field is
\* written as its bits)
EncLayout(typ) ==
    CASE typ = "RlError" -> <<<<"ecode", "u32">>>>
      [] typ = "TStatFs" -> <<<<"fid", "u32">>>>
      [] typ = "RStatFs" -> <<<<"statfs", "statfs">>>>
      [] typ = "TlOpen" -> <<<<"fid", "u32">>, <<"flags", "u32">>>>
      [] typ = "RlOpen" -> <<<<"qid", "qid">>, <<"iounit", "u32">>>>
      [] typ = "TlCreate" -> <<<<"fid", "u32">>, <<"name", "string">>, <<"flags", "u32">>, <<"mode", "u32">>, <<"gid", "u32">>>>
      [] typ = "RlCreate" -> <<<<"qid", "qid">>, <<"iounit", "u32">>>>
      [] typ = "TSymlink" -> <<<<"fid", "u32">>, <<"name", "string">>, <<"symtgt", "string">>, <<"gid", "u32">>>>
      [] typ = "RSymlink" -> <<<<"qid", "qid">>>>
      [] typ = "TMkNod" -> <<<<"dfid", "u32">>, <<"name", "string">>, <<"mode", "u32">>, <<"major", "u32">>, <<"minor", "u32">>, <<"gid", "u32">>>>
      [] typ = "RMkNod" -> <<<<"qid", "qid">>>>
      [] typ = "TRename" -> <<<<"fid", "u32">>, <<"dfid", "u32">>, <<"name", "string">>>>
      [] typ = "RRename" -> <<>>
      [] typ = "TReadLink" -> <<<<"fid", "u32">>>>
      [] typ = "RReadLink" -> <<<<"target", "string">>>>
      [] typ = "TGetAttr" -> <<<<"fid", "u32">>, <<"req_mask", "u64">>>>
      [] typ = "RGetAttr" -> <<<<"valid", "u64">>, <<"qid", "qid">>, <<"stat", "stat">>>>
      [] typ = "TSetAttr" -> <<<<"fid", "u32">>, <<"valid", "u32">>, <<"stat", "setattr">>>>
      [] typ = "RSetAttr" -> <<>>
      [] typ = "TxAttrWalk" -> <<<<"fid", "u32">>, <<"newfid", "u32">>, <<"name", "string">>>>
      [] typ = "RxAttrWalk" -> <<<<"size", "u64">>>>
      [] typ = "TxAttrCreate" -> <<<<"fid", "u32">>, <<"name", "string">>, <<"attr_size", "u64">>, <<"flags", "u32">>>>
      [] typ = "RxAttrCreate" -> <<>>
      [] typ = "TReadDir" -> <<<<"fid", "u32">>, <<"offset", "u64">>, <<"count", "u32">>>>
      [] typ = "RReadDir" -> <<<<"data", "direntrydata">>>>
      [] typ = "TFSync" -> <<<<"fid", "u32">>>>
      [] typ = "RFSync" -> <<>>
      [] typ = "TLock" -> <<<<"fid", "u32">>, <<"flock", "flock">>>>
      [] typ = "RLock" -> <<<<"status", "u8">>>>
      [] typ = "TGetLock" -> <<<<"fid", "u32">>, <<"flock", "getlock">>>>
      [] typ = "RGetLock" -> <<<<"flock", "getlock">>>>
      [] typ = "TLink" -> <<<<"dfid", "u32">>, <<"fid", "u32">>, <<"name", "string">>>>
      [] typ = "RLink" -> <<>>
      [] typ = "TMkDir" -> <<<<"dfid", "u32">>, <<"name", "string">>, <<"mode", "u32">>, <<"gid", "u32">>>>
      [] typ = "RMkDir" -> <<<<"qid", "qid">>>>
      [] typ = "TRenameAt" -> <<<<"olddirfid", "u32">>, <<"oldname", "string">>, <<"newdirfid", "u32">>, <<"newname", "string">>>>
      [] typ = "RRenameAt" -> <<>>
      [] typ = "TUnlinkAt" -> <<<<"dirfd", "u32">>, <<"name", "string">>, <<"flags", "u32">>>>
      [] typ = "RUnlinkAt" -> <<>>
      [] typ = "TAuth" -> <<<<"afid", "u32">>, <<"uname", "string">>, <<"aname", "string">>, <<"n_uname", "u32">>>>
      [] typ = "RAuth" -> <<<<"aqid", "qid">>>>
      [] typ = "TAttach" -> <<<<"fid", "u32">>, <<"afid", "u32">>, <<"uname", "string">>, <<"aname", "string">>, <<"n_uname", "u32">>>>
      [] typ = "RAttach" -> <<<<"qid", "qid">>>>
      [] typ = "TVersion" -> <<<<"msize", "u32">>, <<"version", "string">>>>
      [] typ = "RVersion" -> <<<<"msize", "u32">>, <<"version", "string">>>>
      [] typ = "TFlush" -> <<<<"oldtag", "u16">>>>
      [] typ = "RFlush" -> <<>>
      [] typ = "TWalk" -> <<<<"fid", "u32">>, <<"newfid", "u32">>, <<"wnames", "strings">>>>
      [] typ = "RWalk" -> <<<<"wqids", "qids">>>>
      [] typ = "TRead" -> <<<<"fid", "u32">>, <<"offset", "u64">>, <<"count", "u32">>>>
      [] typ = "RRead" -> <<<<"data", "data">>>>
      [] typ = "TWrite" -> <<<<"fid", "u32">>, <<"offset", "u64">>, <<"data", "data">>>>
      [] typ = "RWrite" -> <<<<"count", "u32">>>>
      [] typ = "TClunk" -> <<<<"fid", "u32">>>>
      [] typ = "RClunk" -> <<>>
      [] typ = "TRemove" -> <<<<"fid", "u32">>>>
      [] typ = "RRemove" -> <<>>

\* impl Decodable for Msg: the fields read after the type byte and the tag,
\* in order, each with the type it is read as
DecLayout(typ) ==
    CASE typ = "RlError" -> <<<<"ecode", "u32">>>>
      [] typ = "TStatFs" -> <<<<"fid", "u32">>>>
      [] typ = "RStatFs" -> <<<<"statfs", "statfs">>>>
      [] typ = "TlOpen" -> <<<<"fid", "u32">>, <<"flags", "u32">>>>
      [] typ = "RlOpen" -> <<<<"qid", "qid">>, <<"iounit", "u32">>>>
      [] typ = "TlCreate" -> <<<<"fid", "u32">>, <<"name", "string">>, <<"flags", "u32">>, <<"mode", "u32">>, <<"gid", "u32">>>>
      [] typ = "RlCreate" -> <<<<"qid", "qid">>, <<"iounit", "u32">>>>
      [] typ = "TSymlink" -> <<<<"fid", "u32">>, <<"name", "string">>, <<"symtgt", "string">>, <<"gid", "u32">>>>
      [] typ = "RSymlink" -> <<<<"qid", "qid">>>>
      [] typ = "TMkNod" -> <<<<"dfid", "u32">>, <<"name", "string">>, <<"mode", "u32">>, <<"major", "u32">>, <<"minor", "u32">>, <<"gid", "u32">>>>
      [] typ = "RMkNod" -> <<<<"qid", "qid">>>>
      [] typ = "TRename" -> <<<<"fid", "u32">>, <<"dfid", "u32">>, <<"name", "string">>>>
      [] typ = "RRename" -> <<>>
      [] typ = "TReadLink" -> <<<<"fid", "u32">>>>
      [] typ = "RReadLink" -> <<<<"target", "string">>>>
      [] typ = "TGetAttr" -> <<<<"fid", "u32">>, <<"req_mask", "GetAttrMask">>>>
      [] typ = "RGetAttr" -> <<<<"valid", "GetAttrMask">>, <<"qid", "qid">>, <<"stat", "stat">>>>
      [] typ = "TSetAttr" -> <<<<"fid", "u32">>, <<"valid", "SetAttrMask">>, <<"stat", "setattr">>>>
      [] typ = "RSetAttr" -> <<>>
      [] typ = "TxAttrWalk" -> <<<<"fid", "u32">>, <<"newfid", "u32">>, <<"name", "string">>>>
      [] typ = "RxAttrWalk" -> <<<<"size", "u64">>>>
      [] typ = "TxAttrCreate" -> <<<<"fid", "u32">>, <<"name", "string">>, <<"attr_size", "u64">>, <<"flags", "u32">>>>
      [] typ = "RxAttrCreate" -> <<>>
      [] typ = "TReadDir" -> <<<<"fid", "u32">>, <<"offset", "u64">>, <<"count", "u32">>>>
      [] typ = "RReadDir" -> <<<<"data", "direntrydata">>>>
      [] typ = "TFSync" -> <<<<"fid", "u32">>>>
      [] typ = "RFSync" -> <<>>
      [] typ = "TLock" -> <<<<"fid", "u32">>, <<"flock", "flock">>>>
      [] typ = "RLock" -> <<<<"status", "LockStatus">>>>
      [] typ = "TGetLock" -> <<<<"fid", "u32">>, <<"flock", "getlock">>>>
      [] typ = "RGetLock" -> <<<<"flock", "getlock">>>>
      [] typ = "TLink" -> <<<<"dfid", "u32">>, <<"fid", "u32">>, <<"name", "string">>>>
      [] typ = "RLink" -> <<>>
      [] typ = "TMkDir" -> <<<<"dfid", "u32">>, <<"name", "string">>, <<"mode", "u32">>, <<"gid", "u32">>>>
      [] typ = "RMkDir" -> <<<<"qid", "qid">>>>
      [] typ = "TRenameAt" -> <<<<"olddirfid", "u32">>, <<"oldname", "string">>, <<"newdirfid", "u32">>, <<"newname", "string">>>>
      [] typ = "RRenameAt" -> <<>>
      [] typ = "TUnlinkAt" -> <<<<"dirfd", "u32">>, <<"name", "string">>, <<"flags", "u32">>>>
      [] typ = "RUnlinkAt" -> <<>>
      [] typ = "TAuth" -> <<<<"afid", "u32">>, <<"uname", "string">>, <<"aname", "string">>, <<"n_uname", "u32">>>>
      [] typ = "RAuth" -> <<<<"aqid", "qid">>>>
      [] typ = "TAttach" -> <<<<"fid", "u32">>, <<"afid", "u32">>, <<"uname", "string">>, <<"aname", "string">>, <<"n_uname", "u32">>>>
      [] typ = "RAttach" -> <<<<"qid", "qid">>>>
      [] typ = "TVersion" -> <<<<"msize", "u32">>, <<"version", "string">>>>
      [] typ = "RVersion" -> <<<<"msize", "u32">>, <<"version", "string">>>>
      [] typ = "TFlush" -> <<<<"oldtag", "u16">>>>
      [] typ = "RFlush" -> <<>>
      [] typ = "TWalk" -> <<<<"fid", "u32">>, <<"newfid", "u32">>, <<"wnames", "strings">>>>
      [] typ = "RWalk" -> <<<<"wqids", "qids">>>>
      [] typ = "TRead" -> <<<<"fid", "u32">>, <<"offset", "u64">>, <<"count", "u32">>>>
      [] typ = "RRead" -> <<<<"data", "data">>>>
      [] typ = "TWrite" -> <<<<"fid", "u32">>, <<"offset", "u64">>, <<"data", "data">>>>
      [] typ = "RWrite" -> <<<<"count", "u32">>>>
      [] typ = "TClunk" -> <<<<"fid", "u32">>>>
      [] typ = "RClunk" -> <<>>
      [] typ = "TRemove" -> <<<<"fid", "u32">>>>
      [] typ = "RRemove" -> <<>>

\* a table that still knows the legacy Topen (112) as an open
from_u8Legacy(byte) ==
    IF byte = 112 THEN "TlOpen"
    ELSE IF \E typ \in DOMAIN MsgTypeByte : MsgTypeByte[typ] = byte
    THEN CHOOSE typ \in DOMAIN MsgTypeByte : MsgTypeByte[typ] = byte
    ELSE "None"

\* MsgType::from_u8: the message type with that byte, if there is one
from_u8(byte) ==
    IF \E t \in DOMAIN MsgTypeByte : MsgTypeByte[t] = byte
    THEN CHOOSE t \in DOMAIN MsgTypeByte : MsgTypeByte[t] = byte
    ELSE "None"

\* impl Encodable for Msg, write_msg: the type byte, the tag, the fields of
\* the body; an RGetAttr is followed by four u64 zeros
write_msg(msg) ==
    LE(MsgTypeByte[msg.body.typ], 1) \o LE(msg.tag, 2) \o
    EncodeFields(EncLayout(msg.body.typ), msg.body) \o
    (IF msg.body.typ = "RGetAttr"
     THEN LE(0, 8) \o LE(0, 8) \o LE(0, 8) \o LE(0, 8) ELSE <<>>)

\* the FCall that a decoded type and the values of its fields make
MkFCall(typ, vals) ==
    [name \in {"typ"} \cup {DecLayout(typ)[i][1] : i \in 1 .. Len(DecLayout(typ))} |->
        IF name = "typ" THEN typ
        ELSE vals[CHOOSE i \in 1 .. Len(DecLayout(typ)) : DecLayout(typ)[i][1] = name]]

\* impl Decodable for Msg, read_msg: the type byte, the tag, then the body
\* by the type; TlError and a byte that is no type are an error; after an
\* RGetAttr a Time and two u64 are read and dropped
read_msg(bytes) ==
    LET t == Decode("u8", bytes) IN
    IF ~t.ok THEN t
    ELSE LET tag == Decode("u16", t.rest) IN
         IF ~tag.ok THEN tag
         ELSE IF from_u8(t.val) \in {"TlError", "None"}
         THEN DecErr("Invalid message type")
         ELSE LET typ == from_u8(t.val)
                  body == DecodeFields(DecLayout(typ), tag.rest, <<>>)
              IN  IF ~body.ok THEN body
                  ELSE LET more == IF typ = "RGetAttr"
                                   THEN DecodeFields(<<<<"btime", "time">>, <<"gen", "u64">>,
                                                       <<"ver", "u64">>>>, body.rest, <<>>)
                                   ELSE DecOk(<<>>, body.rest)
                       IN  IF ~more.ok THEN more
                           ELSE DecOk([tag |-> tag.val, body |-> MkFCall(typ, body.val)],
                                      more.rest)

\* a length field that counts the payload alone
FrameOfPayloadLength(payload) == LE(Len(payload), 4) \o payload

\* framedwrite.send: the LengthDelimitedCodec built with a length field of
\* 4 bytes at offset 0, little-endian, and length_adjustment(-4) writes the
\* length of the payload plus 4, then the payload
FrameOf(payload) == LE(Len(payload) + 4, 4) \o payload

\* framedread.next: the payload of the frame at the head of the bytes, the
\* length field less 4 bytes long
Deframe(bytes) ==
    LET n == Decode("u32", bytes) IN
    IF ~n.ok THEN n
    ELSE IF n.val < 4 THEN DecErr("InvalidData")
    ELSE read_exact(n.rest, n.val - 4)

(***************************************************************************)
(* unpfs: the exported tree on the host.  A path is the sequence of its    *)
(* components below "/"; the export directory is /export.  The tree holds  *)
(* the directory d and, inside it, the regular file f.                     *)
(***************************************************************************)
realroot == <<"export">>
HostDirs == {<<>>, <<"export">>, <<"export", "d">>}
HostFiles == {<<"export", "d", "f">>}
\* the length in bytes of the regular file f
FileLen == 16384
NoEnt == <<"", "ENOENT">>

\* The host's resolution of a path, as symlink_metadata sees it
RECURSIVE ResolveFrom(_, _)
ResolveFrom(cur, rest) ==
    IF rest = <<>> THEN cur
    ELSE IF cur \notin HostDirs THEN NoEnt
    ELSE LET name == Head(rest) IN
         IF name = ".." THEN
             ResolveFrom(IF cur = <<>> THEN cur ELSE SubSeq(cur, 1, Len(cur) - 1),
                         Tail(rest))
         ELSE IF name = "." THEN ResolveFrom(cur, Tail(rest))
         ELSE IF Append(cur, name) \in HostDirs \cup HostFiles
              THEN ResolveFrom(Append(cur, name), Tail(rest))
              ELSE NoEnt

Resolve(path) == IF path = <<>> THEN NoEnt ELSE ResolveFrom(<<>>, path)

\* utils.rs get_qid: Ok(qid) exactly when the path has metadata
get_qid(path) ==
    IF Resolve(path) = NoEnt THEN Err("ENOENT")
    ELSE Ok([typ |-> IF Resolve(path) \in HostDirs THEN "DIR" ELSE "FILE",
             path |-> Resolve(path)])

\* Unpfs::rwalk, the loop over wnames: i is the index of Head(names)
\* (variant: a component that does not resolve is an error wherever it is)
RECURSIVE WalkLoopStrict(_, _, _, _, _)
RECURSIVE WalkLoop(_, _, _, _, _)
WalkLoopStrict(path, new_depth, names, i, wqids) ==
    IF names = <<>> THEN [err |-> "0", path |-> path, depth |-> new_depth, wqids |-> wqids]
    ELSE LET name == Head(names)
             depth1 == IF name = ".." THEN (IF new_depth = 0 THEN 0 ELSE new_depth - 1)
                       ELSE IF name # "." THEN new_depth + 1
                       ELSE new_depth
             path1 == Append(path, name)
         IN  IF name # ".." /\ name # "." /\ depth1 > MaxDepth
             THEN [err |-> "ELOOP", path |-> path, depth |-> new_depth, wqids |-> wqids]
             ELSE IF get_qid(path1).ok
                  THEN WalkLoopStrict(path1, depth1, Tail(names), i + 1,
                                      Append(wqids, get_qid(path1).fcall))
                  ELSE [err |-> "ENOENT", path |-> path1, depth |-> depth1,
                        wqids |-> wqids]
WalkLoop(path, new_depth, names, i, wqids) ==
    IF names = <<>> THEN [err |-> "0", path |-> path, depth |-> new_depth, wqids |-> wqids]
    ELSE LET name == Head(names)
             depth1 == IF name = ".." THEN (IF new_depth = 0 THEN 0 ELSE new_depth - 1)
                       ELSE IF name # "." THEN new_depth + 1
                       ELSE new_depth
             path1 == Append(path, name)
         IN  IF name # ".." /\ name # "." /\ depth1 > MaxDepth
             THEN [err |-> "ELOOP", path |-> path, depth |-> new_depth, wqids |-> wqids]
             ELSE IF get_qid(path1).ok
                  THEN WalkLoop(path1, depth1, Tail(names), i + 1,
                                Append(wqids, get_qid(path1).fcall))
                  ELSE IF i = 0
                       THEN [err |-> "ENOENT", path |-> path1, depth |-> depth1,
                             wqids |-> wqids]
                       ELSE [err |-> "0", path |-> path1, depth |-> depth1,
                             wqids |-> wqids]

\* Unpfs::rwalk up to its loop: the walk starts from a clone of the path of
\* fid and from its depth
\* (variant: the walk starts at the export root)
WalkFromRoot(aux, wnames) == WalkLoop(realroot, 0, wnames, 0, <<>>)
WalkFrom(aux, wnames) == WalkLoop(aux.realpath, aux.depth, wnames, 0, <<>>)

(***************************************************************************)
(* A call of a backend method yields an outcome: the method's result, the  *)
(* fid table with the aux of the resolved fids as the method left it       *)
(* (aux is mutated through the shared reference), and the new fid record   *)
(* as the method left it.                                                  *)
(***************************************************************************)
Outcome(result, fids, nf) == [result |-> result, fids |-> fids, nf |-> nf]

\* Filesystem, the body of every method but rversion as the trait gives it
\* (variant: the default body returns the documented reply)
DefaultImplOk(method) == Ok([typ |-> ReplyType(method)])
DefaultImpl(method) == Err("EOPNOTSUPP")

\* Methods that Unpfs overrides
UnpfsMethods ==
    {"rattach", "rwalk", "rgetattr", "rsetattr", "rreadlink", "rreaddir",
     "rlopen", "rlcreate", "rread", "rwrite", "rmkdir", "rrenameat",
     "runlinkat", "rfsync", "rclunk", "rstatfs"}

\* fs::read_dir: the names in the directory at path, in the order the host
\* lists them
Listing(path) ==
    IF path = <<>> THEN <<"export">>
    ELSE IF path = <<"export">> THEN <<"d">>
    ELSE <<"f">>

\* get_dirent_from for "." and "..": the qid is that of the path relative to
\* the server's working directory, the name is the path given
DotDirent(name, offset) ==
    [qid |-> [typ |-> "DIR", path |-> <<"cwd", name>>], offset |-> offset,
     typ |-> 0, name |-> name]

\* get_dirent: the entry of the directory dir with its name and its qid
Dirent(dir, name, offset) ==
    [qid |-> get_qid(Append(dir, name)).fcall, offset |-> offset,
     typ |-> 0, name |-> name]

\* Unpfs::rreaddir, the while loop: entries are pushed until the next one
\* would take the size of the listing past count
RECURSIVE ReadDirLoop(_, _, _, _, _)
ReadDirLoop(dir, names, i, dirents, count) ==
    IF names = <<>> THEN dirents
    ELSE LET dirent == Dirent(dir, Head(names), 2 + i) IN
         IF DirEntryDataSize(dirents) + DirEntrySize(dirent) > count THEN dirents
         ELSE ReadDirLoop(dir, Tail(names), i + 1, Append(dirents, dirent), count)

\* Unpfs::rreaddir
rreaddir(aux, off, count) ==
    LET first == IF off = 0 THEN <<DotDirent(".", 0), DotDirent("..", 1)>> ELSE <<>>
        offset == IF off = 0 THEN off ELSE off - 1
        dir == Resolve(aux.realpath)
    IN  IF dir = NoEnt THEN Err("ENOENT")
        ELSE IF dir \notin HostDirs THEN Err("ENOTDIR")
        ELSE Ok([typ |-> "RReadDir",
                 data |-> ReadDirLoop(dir,
                                      SubSeq(Listing(dir), offset + 1, Len(Listing(dir))),
                                      offset, first, count)])

\* Unpfs::rread: the number of bytes of f that a buffer of count bytes
\* receives at offset; the Data of an RRead is modelled by its length
ReadLen(offset, count) ==
    LET avail == IF offset < FileLen THEN FileLen - offset ELSE 0
    IN  IF count < avail THEN count ELSE avail

\* The unpfs methods whose effect on the fid's aux is modelled
UnpfsCall(method, args, body, fids, nf) ==
    CASE method = "rattach" ->
            {Outcome(Ok([typ |-> "RAttach", qid |-> get_qid(realroot).fcall]), fids,
                     FId(nf.fid, [nf.aux EXCEPT !.realpath = realroot, !.depth = 0]))}
      [] method = "rwalk" ->
            LET fid == fids[args[1]]
                w == WalkFrom(fid.aux, body.wnames)
            IN  IF w.err # "0" THEN {Outcome(Err(w.err), fids, nf)}
                ELSE {Outcome(Ok([typ |-> "RWalk", wqids |-> w.wqids]), fids,
                              FId(nf.fid, [nf.aux EXCEPT !.realpath = w.path,
                                                         !.depth = w.depth]))}
      [] method = "rgetattr" ->
            IF get_qid(fids[args[1]].aux.realpath).ok
            THEN {Outcome(Ok([typ |-> "RGetAttr",
                              qid |-> get_qid(fids[args[1]].aux.realpath).fcall]),
                          fids, nf)}
            ELSE {Outcome(Err("ENOENT"), fids, nf)}
      [] method = "rlopen" ->
            LET qid == get_qid(fids[args[1]].aux.realpath) IN
            IF ~qid.ok THEN {Outcome(Err("ENOENT"), fids, nf)}
            ELSE {Outcome(Ok([typ |-> "RlOpen", qid |-> qid.fcall]),
                          IF qid.fcall.typ # "DIR"
                          THEN [fids EXCEPT ![args[1]].aux.file = TRUE]
                          ELSE fids,
                          nf)}
      [] method = "rread" ->
            IF fids[args[1]].aux.file
            THEN {Outcome(Ok([typ |-> "RRead",
                              data |-> ReadLen(body.offset, body.count)]), fids, nf)}
            ELSE {Outcome(Err("INVALID_FID"), fids, nf)}
      [] method = "rclunk" -> {Outcome(Ok([typ |-> "RClunk"]), fids, nf)}
      [] method = "rreaddir" ->
            {Outcome(rreaddir(fids[args[1]].aux, body.offset, body.count), fids, nf)}
      [] method = "rversion" -> {Outcome(rversion(body.msize, body.version), fids, nf)}
      \* a method Unpfs leaves to the trait: the default body
      [] method \notin UnpfsMethods \cup {"rversion"} ->
            {Outcome(DefaultImpl(method), fids, nf)}

(***************************************************************************)
(* An arbitrary implementor of the Filesystem trait: each method returns   *)
(* its documented reply, or an error, or (the type Result<FCall> allows    *)
(* it) an FCall that is no reply, here the request's own variant; rwalk    *)
(* may return any number of qids up to the number of names.  Its aux       *)
(* carries nothing.                                                        *)
(***************************************************************************)
BackendErrnos == {"EIO"}

AnyFsCall(method, args, body, fids, nf) ==
    {Outcome(Err(e), fids, nf) : e \in BackendErrnos} \cup
    {Outcome(Ok([typ |-> body.typ]), fids, nf)} \cup
    (CASE method = "rwalk" ->
            {Outcome(Ok([typ |-> "RWalk", wqids |-> [i \in 1 .. k |-> "qid"]]), fids, nf) :
                k \in 0 .. Len(body.wnames)}
       [] method = "rversion" -> {Outcome(rversion(body.msize, body.version), fids, nf)}
       [] OTHER -> {Outcome(Ok([typ |-> ReplyType(method)]), fids, nf)})

\* fut: the method and the fids whose records it was handed
Call(fs, fut, body, fids, nf) ==
    IF fs = "unpfs" THEN UnpfsCall(fut.method, fut.args, body, fids, nf)
    ELSE AnyFsCall(fut.method, fut.args, body, fids, nf)

(***************************************************************************)
(* The connection: dispatch() and the tasks it spawns.                     *)
(***************************************************************************)
VARIABLES
    fsfids,     \* the fid table: raw fid -> FId record
    tasks,      \* the spawned tasks, in the order their frames were read
    waitq,      \* tasks queued on the fid table's RwLock, first come first
    out,        \* the frames sent through framedwrite, in order
    wopen,      \* does the transport still accept writes?
    rdloop,     \* the read loop: "running" or "stopped"
    wmutex,     \* the task holding the lock of framedwrite, 0 when it is free
    wire,       \* the pieces of frames written to the transport, in order
    focus,      \* the accepted connection whose state the variables above hold
    parked,     \* the state of the other accepted connection, if there is one
    codec       \* a message on its way through the codec, and the stage it is at

\* what no step of a connection's read loop or of its tasks touches
others == <<focus, parked, codec>>

vars == <<fsfids, tasks, waitq, out, wopen, rdloop, wmutex, wire, others>>

Tasks == 1 .. Len(tasks)
Unfinished == {w \in Tasks : tasks[w].pc # "done"}
\* Tasks holding a shared read guard: those awaiting their backend future
\* (variant: the guard is dropped before the future is awaited)
ReadHeldNever == {}
ReadHeld == {w \in Tasks : tasks[w].pc = "backend"}

NoFuture == [method |-> "none", args |-> <<>>]
NoResult == [ok |-> FALSE, fcall |-> [typ |-> "none"], errno |-> "pending"]

Init ==
    /\ fsfids = <<>>
    /\ tasks = <<>>
    /\ waitq = <<>>
    /\ out = <<>>
    /\ wopen = TRUE
    /\ rdloop = "running"
    /\ wmutex = 0
    /\ wire = <<>>
    /\ focus = 1
    /\ parked = <<>>
    /\ codec = [stage |-> "idle"]

\* The client tags its requests with distinct tags: the n-th frame after the
\* first carries the tag 2 * n + 1
FreshTag(n) == 2 * n + 1

\* dispatch: framedread.next() is awaited again only while the loop has not
\* been left
\* (variant: the loop goes on reading after it was left)
LoopRunsAlways == TRUE
LoopRuns == rdloop = "running"


\* dispatch: framedread.next() yields a frame that read_msg decodes, and the
\* task for it is spawned; dispatch_once builds the record of its new fid
ReadMsg(bodies, inflight, maxreqs) ==
    /\ LoopRuns
    /\ Len(tasks) < maxreqs
    /\ Cardinality(Unfinished) < inflight
    /\ \E body \in bodies :
          LET msg == [tag |-> FreshTag(Len(tasks)), body |-> body] IN
          tasks' = Append(tasks,
                     [msg |-> msg,
                      pc |-> "start",
                      newfid |-> IF newfid(msg.body) = <<>> THEN <<>>
                                 ELSE <<FId(newfid(msg.body)[1], DefaultAux)>>,
                      fut |-> NoFuture,
                      response |-> NoResult])
    /\ UNCHANGED <<fsfids, waitq, out, wopen, rdloop, wmutex, wire, others>>

\* dispatch: the stream ends, or a frame cannot be read or decoded
ReadEnd ==
    /\ rdloop = "running"
    /\ rdloop' = "stopped"
    /\ UNCHANGED <<fsfids, tasks, waitq, out, wopen, wmutex, wire, others>>

\* dispatch_once with the read guard in hand: the match arm of the message.
\* get_fid fails with EBADF, get_newfid with EPROTO, and the arm of the
\* messages that are no request returns EOPNOTSUPP; otherwise the future of
\* the backend method is built and awaited under the guard
\* (variant: no arm for the messages that are no request)
LookupWithoutCatchAll(w) ==
    LET t == tasks[w]
        body == t.msg.body
        args == GetFidArgs(body)
    IN  IF \E i \in 1 .. Len(args) : args[i] \notin DOMAIN fsfids
        THEN [t EXCEPT !.pc = "reply", !.response = Err("EBADF")]
        ELSE IF UsesNewfid(body) /\ t.newfid = <<>>
        THEN [t EXCEPT !.pc = "reply", !.response = Err("EPROTO")]
        ELSE [t EXCEPT !.pc = "backend",
                       !.fut = [method |-> MethodOf(body), args |-> args]]
Lookup(w) ==
    LET t == tasks[w]
        body == t.msg.body
        args == GetFidArgs(body)
    IN  IF \E i \in 1 .. Len(args) : args[i] \notin DOMAIN fsfids
        THEN [t EXCEPT !.pc = "reply", !.response = Err("EBADF")]
        ELSE IF UsesNewfid(body) /\ t.newfid = <<>>
        THEN [t EXCEPT !.pc = "reply", !.response = Err("EPROTO")]
        ELSE IF MethodOf(body) = "none"
        THEN [t EXCEPT !.pc = "reply", !.response = Err("EOPNOTSUPP")]
        ELSE [t EXCEPT !.pc = "backend",
                       !.fut = [method |-> MethodOf(body), args |-> args]]

\* fsfids.read().await succeeds at once: nothing is queued on the lock
AcquireRead(w) ==
    /\ w \in Tasks
    /\ tasks[w].pc = "start"
    /\ waitq = <<>>
    /\ tasks' = [tasks EXCEPT ![w] = Lookup(w)]
    /\ UNCHANGED <<fsfids, waitq, out, wopen, rdloop, wmutex, wire, others>>

\* fsfids.read().await has to wait: the task queues behind a waiting writer
WaitRead(w) ==
    /\ w \in Tasks
    /\ tasks[w].pc = "start"
    /\ waitq # <<>>
    /\ waitq' = Append(waitq, w)
    /\ tasks' = [tasks EXCEPT ![w].pc = "rwait"]
    /\ UNCHANGED <<fsfids, out, wopen, rdloop, wmutex, wire, others>>

\* a queued reader reaches the head of the queue and gets its guard
GrantRead(w) ==
    /\ w \in Tasks
    /\ tasks[w].pc = "rwait"
    /\ waitq # <<>> /\ Head(waitq) = w
    /\ waitq' = Tail(waitq)
    /\ tasks' = [tasks EXCEPT ![w] = Lookup(w)]
    /\ UNCHANGED <<fsfids, out, wopen, rdloop, wmutex, wire, others>>

\* Does the task change the fid table after a successful backend call?
\* (variant: only the removal of a clunked fid is made)
NeedsWriteClunkOnly(t) == t.msg.body.typ = "TClunk"
NeedsWrite(t) == t.msg.body.typ = "TClunk" \/ t.newfid # <<>>

\* `fut.await?`: on Err dispatch_once returns at once, on Ok it goes on to
\* the removal of the clunked fid and the insertion of the new fid, if any
\* (variant: no `?` on the awaited future)
AfterCallIgnoringErr(result, t) ==
    IF NeedsWrite(t) THEN "update" ELSE "reply"
AfterCall(result, t) ==
    IF result.ok /\ NeedsWrite(t) THEN "update" ELSE "reply"

\* the backend future completes and the read guard is dropped
BackendReturn(w, fs) ==
    /\ w \in Tasks
    /\ tasks[w].pc = "backend"
    /\ \E o \in Call(fs, tasks[w].fut, tasks[w].msg.body, fsfids,
                     IF tasks[w].newfid = <<>> THEN FId(NOFID, DefaultAux)
                     ELSE tasks[w].newfid[1]) :
          /\ fsfids' = o.fids
          /\ tasks' = [tasks EXCEPT
                ![w].response = o.result,
                ![w].newfid = IF tasks[w].newfid = <<>> THEN <<>> ELSE <<o.nf>>,
                ![w].pc = AfterCall(o.result, tasks[w])]
    /\ UNCHANGED <<waitq, out, wopen, rdloop, wmutex, wire, others>>

\* dispatch_once after the backend call, under the write guard:
\* fids.remove(&fid) for TClunk, fids.insert(newfid.fid, newfid) for a new fid
\* (variant: the removal is left out)
RemoveNothing(fids, fid) == fids
Remove(fids, fid) == [f \in DOMAIN fids \ {fid} |-> fids[f]]
\* (variant: the insertion is left out)
InsertNothing(fids, fid, rec) == fids
Insert(fids, fid, rec) == [f \in DOMAIN fids \cup {fid} |-> IF f = fid THEN rec ELSE fids[f]]

\* (variant: a Tclunk empties the table)
UpdateFidsClunkAll(fids, t) ==
    LET fids1 == IF t.msg.body.typ = "TClunk" THEN <<>> ELSE fids
    IN  IF t.newfid # <<>> THEN Insert(fids1, t.newfid[1].fid, t.newfid[1])
        ELSE fids1
UpdateFids(fids, t) ==
    LET fids1 == IF t.msg.body.typ = "TClunk" THEN Remove(fids, t.msg.body.fid)
                 ELSE fids
    IN  IF t.newfid # <<>> THEN Insert(fids1, t.newfid[1].fid, t.newfid[1])
        ELSE fids1

\* fsfids.write().await succeeds at once: no reader holds a guard, nothing queued
\* (variant: the update leaves an entry that exists as it is)
AcquireWriteKeepingEntries(w) ==
    /\ w \in Tasks
    /\ tasks[w].pc = "update"
    /\ waitq = <<>> /\ ReadHeld = {}
    /\ fsfids' = [f \in DOMAIN UpdateFids(fsfids, tasks[w]) |->
                     IF f \in DOMAIN fsfids THEN fsfids[f]
                     ELSE UpdateFids(fsfids, tasks[w])[f]]
    /\ tasks' = [tasks EXCEPT ![w].pc = "reply"]
    /\ UNCHANGED <<waitq, out, wopen, rdloop, wmutex, wire, others>>
AcquireWrite(w) ==
    /\ w \in Tasks
    /\ tasks[w].pc = "update"
    /\ waitq = <<>> /\ ReadHeld = {}
    /\ fsfids' = UpdateFids(fsfids, tasks[w])
    /\ tasks' = [tasks EXCEPT ![w].pc = "reply"]
    /\ UNCHANGED <<waitq, out, wopen, rdloop, wmutex, wire, others>>

\* fsfids.write().await has to wait for the readers, or for those queued
WaitWrite(w) ==
    /\ w \in Tasks
    /\ tasks[w].pc = "update"
    /\ ~(waitq = <<>> /\ ReadHeld = {})
    /\ waitq' = Append(waitq, w)
    /\ tasks' = [tasks EXCEPT ![w].pc = "wwait"]
    /\ UNCHANGED <<fsfids, out, wopen, rdloop, wmutex, wire, others>>

\* a queued writer at the head of the queue gets the lock once all read
\* guards are dropped
\* (variant: the task asks for the write lock with its own read guard in hand)
GrantWriteUnderRead(w) ==
    /\ w \in Tasks
    /\ tasks[w].pc = "wwait"
    /\ waitq # <<>> /\ Head(waitq) = w
    /\ ReadHeld \cup {w} = {}
    /\ waitq' = Tail(waitq)
    /\ fsfids' = UpdateFids(fsfids, tasks[w])
    /\ tasks' = [tasks EXCEPT ![w].pc = "reply"]
    /\ UNCHANGED <<out, wopen, rdloop, wmutex, wire, others>>
GrantWrite(w) ==
    /\ w \in Tasks
    /\ tasks[w].pc = "wwait"
    /\ waitq # <<>> /\ Head(waitq) = w
    /\ ReadHeld = {}
    /\ waitq' = Tail(waitq)
    /\ fsfids' = UpdateFids(fsfids, tasks[w])
    /\ tasks' = [tasks EXCEPT ![w].pc = "reply"]
    /\ UNCHANGED <<out, wopen, rdloop, wmutex, wire, others>>

\* dispatch, the spawned closure: the FCall to send, RlError for an Err
ResponseFcall(result) ==
    IF result.ok THEN result.fcall ELSE RlError(errno(result.errno))

\* the reply frame: the request's tag and the response body
\* (variant: the reply does not carry the request's tag)
ReplyMsgNoTag(t) == [tag |-> NOTAG, body |-> ResponseFcall(t.response)]
ReplyMsg(t) == [tag |-> t.msg.tag, body |-> ResponseFcall(t.response)]

\* the frame of a message as the transport sees it: the pieces it is
\* written in, each with the tag of its frame and its position in it
FramePieces(msg) == [k \in 1 .. FrameChunks |-> [tag |-> msg.tag, part |-> k]]

\* the closure sends the reply under the writer mutex; a failed send is
\* logged and the task returns.  The lock, the send and the unlock in one step
\* (variant: the response is sent whatever its type)
SendReplyOfAnyType(w) ==
    /\ w \in Tasks
    /\ tasks[w].pc = "reply"
    /\ wmutex = 0
    /\ out' = IF wopen THEN Append(out, ReplyMsg(tasks[w])) ELSE out
    /\ wire' = IF wopen THEN wire \o FramePieces(ReplyMsg(tasks[w])) ELSE wire
    /\ tasks' = [tasks EXCEPT ![w].pc = "done"]
    /\ UNCHANGED <<fsfids, waitq, wopen, rdloop, wmutex, others>>
SendReply(w) ==
    /\ w \in Tasks
    /\ tasks[w].pc = "reply"
    /\ is_r(ResponseFcall(tasks[w].response))
    /\ wmutex = 0
    /\ out' = IF wopen THEN Append(out, ReplyMsg(tasks[w])) ELSE out
    /\ wire' = IF wopen THEN wire \o FramePieces(ReplyMsg(tasks[w])) ELSE wire
    /\ tasks' = [tasks EXCEPT ![w].pc = "done"]
    /\ UNCHANGED <<fsfids, waitq, wopen, rdloop, wmutex, others>>

\* serialize::write_msg returns an error: the closure logs it and returns,
\* nothing is sent
\* (variant: the failure also ends the read loop)
SerializeFailsClosing(w) ==
    /\ w \in Tasks
    /\ tasks[w].pc = "reply"
    /\ is_r(ResponseFcall(tasks[w].response))
    /\ tasks' = [tasks EXCEPT ![w].pc = "done"]
    /\ rdloop' = "stopped"
    /\ UNCHANGED <<fsfids, waitq, out, wopen, wmutex, wire, others>>
SerializeFails(w) ==
    /\ w \in Tasks
    /\ tasks[w].pc = "reply"
    /\ is_r(ResponseFcall(tasks[w].response))
    /\ tasks' = [tasks EXCEPT ![w].pc = "done"]
    /\ UNCHANGED <<fsfids, waitq, out, wopen, rdloop, wmutex, wire, others>>

\* the peer stops reading: from now on every send on the transport fails
WriterFails ==
    /\ wopen
    /\ wopen' = FALSE
    /\ UNCHANGED <<fsfids, tasks, waitq, out, rdloop, wmutex, wire, others>>

\* the closure sends nothing when the backend's FCall is no R-message
DropReply(w) ==
    /\ w \in Tasks
    /\ tasks[w].pc = "reply"
    /\ ~is_r(ResponseFcall(tasks[w].response))
    /\ tasks' = [tasks EXCEPT ![w].pc = "done"]
    /\ UNCHANGED <<fsfids, waitq, out, wopen, rdloop, wmutex, wire, others>>

\* the indexes a task can have
(***************************************************************************)
(* The send of a reply, write by write: framedwrite.lock().await, the      *)
(* writes of the frame's pieces to the transport, and the drop of the      *)
(* guard.                                                                  *)
(***************************************************************************)
\* Mutex::lock: the lock is granted when no task holds it
\* (variant: the lock is granted whoever holds it)
WriterFreeAlways == TRUE
WriterFree == wmutex = 0

\* the pieces of the reply of task w that are on the wire
Written(w) == {i \in 1 .. Len(wire) : wire[i].tag = tasks[w].msg.tag}

\* framedwrite.lock().await returns the guard
LockWriter(w) ==
    /\ w \in Tasks
    /\ tasks[w].pc = "reply"
    /\ is_r(ResponseFcall(tasks[w].response))
    /\ WriterFree
    /\ wmutex' = w
    /\ tasks' = [tasks EXCEPT ![w].pc = "send"]
    /\ UNCHANGED <<fsfids, waitq, out, wopen, rdloop, wire, others>>

\* send, in progress: the next piece of the frame goes to the transport
WriteChunk(w) ==
    /\ w \in Tasks
    /\ tasks[w].pc = "send"
    /\ wopen
    /\ Cardinality(Written(w)) < FrameChunks
    /\ wire' = Append(wire, FramePieces(ReplyMsg(tasks[w]))[Cardinality(Written(w)) + 1])
    /\ UNCHANGED <<fsfids, tasks, waitq, out, wopen, rdloop, wmutex, others>>

\* send returns Ok: the frame is out, the guard is dropped, the task ends
FinishSend(w) ==
    /\ w \in Tasks
    /\ tasks[w].pc = "send"
    /\ wopen
    /\ Cardinality(Written(w)) = FrameChunks
    /\ out' = Append(out, ReplyMsg(tasks[w]))
    /\ wmutex' = IF wmutex = w THEN 0 ELSE wmutex
    /\ tasks' = [tasks EXCEPT ![w].pc = "done"]
    /\ UNCHANGED <<fsfids, waitq, wopen, rdloop, wire, others>>

\* send returns Err: the error is logged, the guard is dropped, the task ends
FailSend(w) ==
    /\ w \in Tasks
    /\ tasks[w].pc = "send"
    /\ ~wopen
    /\ wmutex' = IF wmutex = w THEN 0 ELSE wmutex
    /\ tasks' = [tasks EXCEPT ![w].pc = "done"]
    /\ UNCHANGED <<fsfids, waitq, out, wopen, rdloop, wire, others>>

MaxTasks ==
    CHOOSE m \in {MaxReqs, MaxUnpfsReqs, MaxReadReqs} :
        \A n \in {MaxReqs, MaxUnpfsReqs, MaxReadReqs} : n <= m
TaskIds == 1 .. MaxTasks

\* A step of one of the spawned tasks, with the backend fs
TaskStep(fs) ==
    \/ \E w \in TaskIds : AcquireRead(w)
    \/ \E w \in TaskIds : WaitRead(w)
    \/ \E w \in TaskIds : GrantRead(w)
    \/ \E w \in TaskIds : BackendReturn(w, fs)
    \/ \E w \in TaskIds : AcquireWrite(w)
    \/ \E w \in TaskIds : WaitWrite(w)
    \/ \E w \in TaskIds : GrantWrite(w)
    \/ \E w \in TaskIds : SendReply(w)
    \/ \E w \in TaskIds : DropReply(w)

(***************************************************************************)
(* The frames a client sends.                                              *)
(***************************************************************************)
WalkNames == {<<>>, <<"d", "f">>}

CoreBodies ==
    {[typ |-> "TAttach", fid |-> f, afid |-> NOFID] : f \in FidIds} \cup
    {[typ |-> "TWalk", fid |-> f, newfid |-> n, wnames |-> ns] :
        f \in FidIds, n \in FidIds, ns \in WalkNames} \cup
    {[typ |-> ty, fid |-> f] : ty \in {"TClunk", "TRemove", "TGetAttr"}, f \in FidIds} \cup
    {[typ |-> "TVersion", msize |-> 8192, version |-> P92000L]}

\* A step of the only task of a connection whose client sends one request
\* at a time: the lock on the fid table is never contended
SoloStep(fs) ==
    \/ \E w \in TaskIds : AcquireRead(w)
    \/ \E w \in TaskIds : BackendReturn(w, fs)
    \/ \E w \in TaskIds : AcquireWrite(w)
    \/ \E w \in TaskIds : SendReply(w)

\* The connection with its transport up, served by an arbitrary backend
Next ==
    \/ ReadMsg(CoreBodies, MaxInflight, MaxReqs)
    \/ TaskStep("any")

Spec == Init /\ [][Next]_vars

(***************************************************************************)
(* The connection with a transport that may end: the client stops sending  *)
(* (or sends what cannot be decoded), or stops reading.                    *)
(***************************************************************************)
ConnBodies ==
    {[typ |-> ty, fid |-> f] : ty \in {"TClunk", "TGetAttr"}, f \in FidIds} \cup
    {[typ |-> "TAttach", fid |-> f, afid |-> NOFID] : f \in FidIds}

NextConn ==
    \/ ReadMsg(ConnBodies, MaxInflight, MaxReqs)
    \/ ReadEnd
    \/ WriterFails
    \/ TaskStep("any")

SpecConn == Init /\ [][NextConn]_vars

\* A connection on which the serialization of a reply can fail; its client
\* sends one request at a time
NextSer ==
    \/ ReadMsg(ConnBodies, 1, MaxReqs)
    \/ SoloStep("any")
    \/ \E w \in TaskIds : DropReply(w)
    \/ \E w \in TaskIds : SerializeFails(w)

SpecSer == Init /\ [][NextSer]_vars

\* The same connection on a runtime that goes on polling the spawned tasks,
\* with a backend whose calls return
SpecDrain == SpecConn /\ WF_vars(TaskStep("any"))

(***************************************************************************)
(* The same connection with the send of a reply taken write by write.      *)
(***************************************************************************)
NextWriter ==
    \/ ReadMsg(ConnBodies, MaxInflight, MaxReqs)
    \/ WriterFails
    \/ \E w \in TaskIds : AcquireRead(w)
    \/ \E w \in TaskIds : WaitRead(w)
    \/ \E w \in TaskIds : GrantRead(w)
    \/ \E w \in TaskIds : BackendReturn(w, "any")
    \/ \E w \in TaskIds : AcquireWrite(w)
    \/ \E w \in TaskIds : WaitWrite(w)
    \/ \E w \in TaskIds : GrantWrite(w)
    \/ \E w \in TaskIds : LockWriter(w)
    \/ \E w \in TaskIds : WriteChunk(w)
    \/ \E w \in TaskIds : FinishSend(w)
    \/ \E w \in TaskIds : FailSend(w)
    \/ \E w \in TaskIds : DropReply(w)

SpecWriter == Init /\ [][NextWriter]_vars

(***************************************************************************)
(* The connection with every request in flight at once and a scheduler     *)
(* that runs every task that can take a step; the backend call of the      *)
(* first request takes as long as it likes, and may never return.          *)
(***************************************************************************)
HolBodies ==
    {[typ |-> "TAttach", fid |-> 0, afid |-> NOFID],
     [typ |-> "TGetAttr", fid |-> 0],
     [typ |-> "TClunk", fid |-> 0]}

NextHol ==
    \/ ReadMsg(HolBodies, MaxReqs, MaxReqs)
    \/ TaskStep("any")

\* the steps the runtime is bound to take when they are possible: those of
\* every task but the return of the backend call of the first
HolProgress ==
    \/ ReadMsg(HolBodies, MaxReqs, MaxReqs)
    \/ \E w \in TaskIds : AcquireRead(w)
    \/ \E w \in TaskIds : WaitRead(w)
    \/ \E w \in TaskIds : GrantRead(w)
    \/ \E w \in TaskIds \ {1} : BackendReturn(w, "any")
    \/ \E w \in TaskIds : AcquireWrite(w)
    \/ \E w \in TaskIds : WaitWrite(w)
    \/ \E w \in TaskIds : GrantWrite(w)
    \/ \E w \in TaskIds : SendReply(w)
    \/ \E w \in TaskIds : DropReply(w)

SpecHol == Init /\ [][NextHol]_vars /\ WF_vars(HolProgress)

\* the same connection with backend calls that all return: the runtime polls
\* every spawned task that can take a step
SpecProgress == Init /\ [][NextHol]_vars /\ WF_vars(TaskStep("any"))

(***************************************************************************)
(* The connection of a client that flushes its first request.              *)
(***************************************************************************)
FlushBodies ==
    {[typ |-> "TAttach", fid |-> 0, afid |-> NOFID],
     [typ |-> "TGetAttr", fid |-> 0],
     [typ |-> "TFlush", oldtag |-> FreshTag(0)]}

NextFlush ==
    \/ ReadMsg(FlushBodies, MaxInflight, MaxReqs)
    \/ TaskStep("any")

SpecFlush == Init /\ [][NextFlush]_vars

\* the same client served by unpfs, which leaves rflush to the trait
NextFlushUnpfs ==
    \/ ReadMsg(FlushBodies, MaxInflight, MaxReqs)
    \/ \E w \in TaskIds : AcquireRead(w)
    \/ \E w \in TaskIds : WaitRead(w)
    \/ \E w \in TaskIds : GrantRead(w)
    \/ \E w \in TaskIds : BackendReturn(w, "unpfs")
    \/ \E w \in TaskIds : AcquireWrite(w)
    \/ \E w \in TaskIds : WaitWrite(w)
    \/ \E w \in TaskIds : GrantWrite(w)
    \/ \E w \in TaskIds : SendReply(w)

SpecFlushUnpfs == Init /\ [][NextFlushUnpfs]_vars

(***************************************************************************)
(* Every request variant, and a reply variant sent by the client: the      *)
(* last frame is any message, the frames before it are core requests; one  *)
(* request at a time.                                                      *)
(***************************************************************************)
AllBodies ==
    {[typ |-> ty, fid |-> f] : ty \in OneFidTypes, f \in FidIds} \cup
    {[typ |-> ty, dfid |-> d] : ty \in OneDfidTypes, d \in FidIds} \cup
    {[typ |-> ty, fid |-> f, dfid |-> d] :
        ty \in {"TRename", "TLink"}, f \in FidIds, d \in FidIds} \cup
    {[typ |-> "TRenameAt", olddirfid |-> f, newdirfid |-> d] :
        f \in FidIds, d \in FidIds} \cup
    {[typ |-> "TUnlinkAt", dirfd |-> d] : d \in FidIds} \cup
    {[typ |-> "TxAttrWalk", fid |-> f, newfid |-> n] : f \in FidIds, n \in FidIds} \cup
    {[typ |-> "TAuth", afid |-> f] : f \in FidIds} \cup
    {[typ |-> "TAttach", fid |-> f, afid |-> a] : f \in FidIds, a \in {NOFID} \cup FidIds} \cup
    {[typ |-> "TVersion", msize |-> 8192, version |-> v] : v \in {P92000L, "9P2000"}} \cup
    {[typ |-> "TFlush", oldtag |-> FreshTag(0)]} \cup
    {[typ |-> "TWalk", fid |-> f, newfid |-> n, wnames |-> ns] :
        f \in FidIds, n \in FidIds, ns \in WalkNames} \cup
    {[typ |-> ty] : ty \in RTypes}

NextAll ==
    \/ ReadMsg(IF Len(tasks) + 1 < MaxReqs THEN CoreBodies ELSE AllBodies, 1, MaxReqs)
    \/ SoloStep("any")
    \/ \E w \in TaskIds : DropReply(w)

SpecAll == Init /\ [][NextAll]_vars

(***************************************************************************)
(* The reference server: the requests that reach a method of unpfs whose   *)
(* effect is modelled, from a client that sends one request at a time and  *)
(* names as input only fids that are registered.                           *)
(***************************************************************************)
Names == {"d", "f"}

RECURSIVE SeqsUpTo(_, _)
SeqsUpTo(S, n) ==
    IF n = 0 THEN {<<>>}
    ELSE SeqsUpTo(S, n - 1) \cup
         {Append(q, x) : q \in {p \in SeqsUpTo(S, n - 1) : Len(p) = n - 1}, x \in S}

UnpfsBodies ==
    {[typ |-> "TAttach", fid |-> f, afid |-> NOFID] : f \in FidIds} \cup
    {[typ |-> "TWalk", fid |-> f, newfid |-> n, wnames |-> ns] :
        f \in FidIds, n \in FidIds, ns \in SeqsUpTo(Names, MaxWalk)} \cup
    {[typ |-> ty, fid |-> f] :
        ty \in {"TClunk", "TRemove", "TGetAttr", "TlOpen"}, f \in FidIds} \cup
    {[typ |-> "TRead", fid |-> f, offset |-> 0, count |-> 4096] : f \in FidIds}

Registered(body) ==
    \A i \in 1 .. Len(GetFidArgs(body)) : GetFidArgs(body)[i] \in DOMAIN fsfids

NextUnpfs ==
    \/ ReadMsg({b \in UnpfsBodies : Registered(b)}, 1, MaxUnpfsReqs)
    \/ SoloStep("unpfs")

SpecUnpfs == Init /\ [][NextUnpfs]_vars

(***************************************************************************)
(* The reference server and the requests whose methods unpfs leaves to     *)
(* the trait, from a client that sends one request at a time.              *)
(***************************************************************************)
DefaultsBodies ==
    {[typ |-> "TAttach", fid |-> f, afid |-> NOFID] : f \in FidIds} \cup
    {[typ |-> ty, fid |-> f] :
        ty \in {"TGetAttr", "TRemove", "TSymlink", "TLock", "TGetLock", "TxAttrCreate"},
        f \in FidIds} \cup
    {[typ |-> "TMkNod", dfid |-> d] : d \in FidIds} \cup
    {[typ |-> ty, fid |-> f, dfid |-> d] :
        ty \in {"TRename", "TLink"}, f \in FidIds, d \in FidIds} \cup
    {[typ |-> "TxAttrWalk", fid |-> f, newfid |-> n] : f \in FidIds, n \in FidIds} \cup
    {[typ |-> "TAuth", afid |-> f] : f \in FidIds} \cup
    {[typ |-> "TFlush", oldtag |-> FreshTag(0)]}

NextDefaults ==
    \/ ReadMsg(DefaultsBodies, 1, MaxReqs)
    \/ SoloStep("unpfs")

SpecDefaults == Init /\ [][NextDefaults]_vars

(***************************************************************************)
(* Version negotiation with the reference server, which leaves rversion    *)
(* to the trait: the client offers a version string and an msize.          *)
(***************************************************************************)
Versions == {P92000L, "9P2000", "9P2000.u", "9p2000.l", "", VERSION_UNKNOWN}
Msizes == {8192, max_frame_length, 2 * max_frame_length}

VersionBodies ==
    {[typ |-> "TVersion", msize |-> m, version |-> v] : m \in Msizes, v \in Versions}

NextVersion ==
    \/ ReadMsg(VersionBodies, 1, MaxReqs)
    \/ \E w \in TaskIds : AcquireRead(w)
    \/ \E w \in TaskIds : BackendReturn(w, "unpfs")
    \/ \E w \in TaskIds : SendReply(w)

SpecVersion == Init /\ [][NextVersion]_vars

(***************************************************************************)
(* Reading the file f after a version negotiation, with unpfs: the client  *)
(* offers an msize, attaches, walks to d/f, opens it and reads with a      *)
(* count below or above the msize.                                         *)
(***************************************************************************)
Counts == {4096, FileLen}

ReadBodies ==
    {[typ |-> "TVersion", msize |-> 8192, version |-> P92000L]} \cup
    {[typ |-> "TAttach", fid |-> f, afid |-> NOFID] : f \in FidIds} \cup
    {[typ |-> "TWalk", fid |-> f, newfid |-> f, wnames |-> <<"d", "f">>] : f \in FidIds} \cup
    {[typ |-> "TlOpen", fid |-> f] : f \in FidIds} \cup
    {[typ |-> "TRead", fid |-> f, offset |-> 0, count |-> c] : f \in FidIds, c \in Counts}

NextRead ==
    \/ ReadMsg({b \in ReadBodies : Registered(b)}, 1, MaxReadReqs)
    \/ SoloStep("unpfs")

SpecRead == Init /\ [][NextRead]_vars

(***************************************************************************)
(* The reference server and a client that attaches and walks, with walks   *)
(* that name "." and ".." as well; one request at a time.                  *)
(***************************************************************************)
DotNames == {"d", "f", "..", "."}

DotBodies ==
    {[typ |-> "TAttach", fid |-> f, afid |-> NOFID] : f \in FidIds} \cup
    {[typ |-> "TWalk", fid |-> f, newfid |-> n, wnames |-> ns] :
        f \in FidIds, n \in FidIds, ns \in SeqsUpTo(DotNames, MaxWalk)}

NextDots ==
    \/ ReadMsg({b \in DotBodies : Registered(b)}, 1, MaxReqs)
    \/ SoloStep("unpfs")

SpecDots == Init /\ [][NextDots]_vars

(***************************************************************************)
(* The reference server and a client that lists directories: it attaches,  *)
(* walks to d or to d/f, and reads the directory of its fid from an offset *)
(* with a count of bytes.                                                  *)
(***************************************************************************)
DirOffsets == 0 .. 2
\* counts below the size of the entry ".", between those of "." and "..",
\* of the two, of the two and a part of the next entry, of all three, more
DirCounts == {0, 25, 30, 51, 60, 76, 4096}

ReadDirBodies ==
    {[typ |-> "TAttach", fid |-> f, afid |-> NOFID] : f \in FidIds} \cup
    {[typ |-> "TWalk", fid |-> f, newfid |-> f, wnames |-> ns] :
        f \in FidIds, ns \in {<<"d">>, <<"d", "f">>}} \cup
    {[typ |-> "TReadDir", fid |-> f, offset |-> o, count |-> c] :
        f \in FidIds, o \in DirOffsets, c \in DirCounts}

NextReadDir ==
    \/ ReadMsg({b \in ReadDirBodies : Registered(b)}, 1, MaxReqs)
    \/ SoloStep("unpfs")

SpecReadDir == Init /\ [][NextReadDir]_vars

(***************************************************************************)
(* The reference server and a client that walks a fid onto itself: the     *)
(* newfid of each Twalk is its fid, registered or not; one request at a    *)
(* time.                                                                   *)
(***************************************************************************)
SelfWalkBodies ==
    {[typ |-> "TAttach", fid |-> f, afid |-> NOFID] : f \in FidIds} \cup
    {[typ |-> "TlOpen", fid |-> f] : f \in FidIds} \cup
    {[typ |-> "TWalk", fid |-> f, newfid |-> f, wnames |-> ns] :
        f \in FidIds, ns \in SeqsUpTo(Names, MaxWalk)}

NextSelfWalk ==
    \/ ReadMsg(SelfWalkBodies, 1, MaxUnpfsReqs)
    \/ SoloStep("unpfs")

SpecSelfWalk == Init /\ [][NextSelfWalk]_vars

(***************************************************************************)
(* srv_async_tcp: the accept loop spawns dispatch() for each connection    *)
(* it accepts, and the connections' tasks run interleaved.  The variables  *)
(* of the connection hold the state of the connection in focus; the state  *)
(* of the other one is parked, and a step of the other connection is a     *)
(* step taken after the two have changed places.                           *)
(***************************************************************************)
\* the state dispatch() starts a connection with
NewConn ==
    [fsfids |-> <<>>, tasks |-> <<>>, waitq |-> <<>>, out |-> <<>>,
     wopen |-> TRUE, rdloop |-> "running", wmutex |-> 0, wire |-> <<>>]

\* dispatch: fsfids is the table that this call of dispatch created
\* (variant: one table, created once, serves every connection)
fsfidsOfServer(conn) == fsfids
fsfidsOf(conn) == conn.fsfids

\* listener.accept() returns a second connection
Accept ==
    /\ parked = <<>>
    /\ parked' = <<NewConn>>
    /\ UNCHANGED <<fsfids, tasks, waitq, out, wopen, rdloop, wmutex, wire, focus, codec>>

\* the scheduler turns from the tasks of one connection to those of the other
Switch ==
    /\ parked # <<>>
    /\ parked' = <<[fsfids |-> fsfids, tasks |-> tasks, waitq |-> waitq, out |-> out,
                    wopen |-> wopen, rdloop |-> rdloop, wmutex |-> wmutex,
                    wire |-> wire]>>
    /\ focus' = 3 - focus
    /\ fsfids' = fsfidsOf(parked[1])
    /\ tasks' = parked[1].tasks
    /\ waitq' = parked[1].waitq
    /\ out' = parked[1].out
    /\ wopen' = parked[1].wopen
    /\ rdloop' = parked[1].rdloop
    /\ wmutex' = parked[1].wmutex
    /\ wire' = parked[1].wire
    /\ UNCHANGED codec

PairBodies ==
    {[typ |-> "TAttach", fid |-> f, afid |-> NOFID] : f \in FidIds} \cup
    {[typ |-> ty, fid |-> f] : ty \in {"TClunk", "TGetAttr"}, f \in FidIds}

NextPair ==
    \/ Accept
    \/ Switch
    \/ ReadMsg(PairBodies, 1, MaxPairReqs)
    \/ SoloStep("any")
    \/ \E w \in TaskIds : DropReply(w)

SpecPair == Init /\ [][NextPair]_vars

(***************************************************************************)
(* The codec at work: a message is written with write_msg, sent as a frame *)
(* by the framed writer, taken off the wire by the framed reader and       *)
(* decoded with read_msg.  The messages are two or three of every variant  *)
(* of FCall, their fields filled with the values of a sample.              *)
(***************************************************************************)
Samples == 1 .. 3

\* a well-formed value of each type a field has
RECURSIVE Sample(_, _)
Sample(kind, v) ==
    CASE kind = "u8" -> IF v = 1 THEN 1 ELSE 254
      [] kind = "u16" -> IF v = 1 THEN 258 ELSE 65535
      [] kind = "u32" -> IF v = 1 THEN 16909060 ELSE 7
      [] kind = "u64" -> IF v = 1 THEN 16909060 ELSE 0
      [] kind \in DOMAIN AllBits -> IF v = 1 THEN 1 ELSE AllBits[kind] - 1
      [] kind = "string" -> IF v = 1 THEN "a" ELSE "9P2000.L"
      [] kind = "data" -> IF v = 1 THEN <<>> ELSE <<1, 2, 255>>
      [] kind = "strings" -> IF v = 1 THEN <<>> ELSE <<"d", "f">>
      [] kind = "qids" -> [i \in 1 .. (v - 1) |-> Sample("qid", i)]
      [] kind = "direntrydata" -> [i \in 1 .. (v - 1) |-> Sample("direntry", i)]
      [] OTHER ->
            [name \in {StructDecLayout(kind)[i][1] : i \in 1 .. Len(StructDecLayout(kind))} |->
                Sample(StructDecLayout(kind)
                          [CHOOSE i \in 1 .. Len(StructDecLayout(kind)) :
                              StructDecLayout(kind)[i][1] = name][2], v)]

WireBody(typ, v) ==
    [name \in {"typ"} \cup {DecLayout(typ)[i][1] : i \in 1 .. Len(DecLayout(typ))} |->
        IF name = "typ" THEN typ
        ELSE Sample(DecLayout(typ)[CHOOSE i \in 1 .. Len(DecLayout(typ)) :
                                      DecLayout(typ)[i][1] = name][2], v)]

WireTags == {258, NOTAG}

WireMsgs ==
    {[tag |-> tag, body |-> WireBody(typ, v)] :
        tag \in WireTags, typ \in DOMAIN MsgTypeByte \ {"TlError"}, v \in Samples}

NoBytes == DecErr("none")

\* a message to send
CodecCompose ==
    /\ codec.stage = "idle"
    /\ \E msg \in WireMsgs :
          codec' = [stage |-> "composed", msg |-> msg, bytes |-> <<>>, result |-> NoBytes]
    /\ UNCHANGED <<fsfids, tasks, waitq, out, wopen, rdloop, wmutex, wire, focus, parked>>

\* serialize::write_msg into the buffer
CodecWrite ==
    /\ codec.stage = "composed"
    /\ codec' = [codec EXCEPT !.stage = "written", !.bytes = write_msg(codec.msg)]
    /\ UNCHANGED <<fsfids, tasks, waitq, out, wopen, rdloop, wmutex, wire, focus, parked>>

\* framedwrite.send(frozen)
CodecSend ==
    /\ codec.stage = "written"
    /\ codec' = [codec EXCEPT !.stage = "sent", !.bytes = FrameOf(codec.bytes)]
    /\ UNCHANGED <<fsfids, tasks, waitq, out, wopen, rdloop, wmutex, wire, focus, parked>>

\* framedread.next() at the peer
CodecReceive ==
    /\ codec.stage = "sent"
    /\ Deframe(codec.bytes).ok
    /\ codec' = [codec EXCEPT !.stage = "received", !.bytes = Deframe(codec.bytes).val]
    /\ UNCHANGED <<fsfids, tasks, waitq, out, wopen, rdloop, wmutex, wire, focus, parked>>

\* serialize::read_msg on the bytes of the frame
CodecRead ==
    /\ codec.stage = "received"
    /\ codec' = [codec EXCEPT !.stage = "decoded", !.result = read_msg(codec.bytes)]
    /\ UNCHANGED <<fsfids, tasks, waitq, out, wopen, rdloop, wmutex, wire, focus, parked>>

NextCodec ==
    \/ CodecCompose
    \/ CodecWrite
    \/ CodecSend
    \/ CodecReceive
    \/ CodecRead

SpecCodec == Init /\ [][NextCodec]_vars

(***************************************************************************)
(* The read loop on raw frames: every frame the framed reader yields goes  *)
(* through read_msg; a message is dispatched, an error ends dispatch().    *)
(* The frames carry every value of the type byte.                          *)
(***************************************************************************)
TypeBytes == 0 .. 255

\* the bytes after the type byte of a written message: a tag and a fid
TClunkTail == Tail(write_msg([tag |-> 258, body |-> WireBody("TClunk", 2)]))

Frames ==
    {write_msg(m) : m \in {w \in WireMsgs : w.tag = 258}} \cup
    {<<b>> \o TClunkTail : b \in TypeBytes} \cup
    {<<b, 2>> : b \in TypeBytes}

\* dispatch: one turn of the while loop on the bytes of a frame
ReadFrame(frames, maxreqs) ==
    /\ LoopRuns
    /\ Len(tasks) < maxreqs
    /\ Unfinished = {}
    /\ \E bytes \in frames :
          LET msg == read_msg(bytes) IN
          /\ codec' = [stage |-> "read", bytes |-> bytes, result |-> msg,
                       before |-> Len(tasks)]
          /\ IF msg.ok
             THEN /\ tasks' = Append(tasks,
                                [msg |-> msg.val,
                                 pc |-> "start",
                                 newfid |-> IF newfid(msg.val.body) = <<>> THEN <<>>
                                            ELSE <<FId(newfid(msg.val.body)[1], DefaultAux)>>,
                                 fut |-> NoFuture,
                                 response |-> NoResult])
                  /\ UNCHANGED rdloop
             ELSE /\ rdloop' = "stopped"
                  /\ UNCHANGED tasks
    /\ UNCHANGED <<fsfids, waitq, out, wopen, wmutex, wire, focus, parked>>

NextDecode ==
    \/ ReadFrame(Frames, MaxFrames)
    \/ SoloStep("any")
    \/ \E w \in TaskIds : DropReply(w)

SpecDecode == Init /\ [][NextDecode]_vars

(***************************************************************************)
(* The specification's tables (spec.md, section 6 and section 4.4): the    *)
(* input fids a request type declares, in the order of the table, the fid  *)
(* it introduces, and the backend operation of the type.                   *)
(***************************************************************************)
DeclaredInputs(body) ==
    CASE body.typ \in {"TStatFs", "TlOpen", "TlCreate", "TSymlink", "TReadLink",
                       "TGetAttr", "TSetAttr", "TxAttrWalk", "TxAttrCreate",
                       "TReadDir", "TFSync", "TLock", "TGetLock", "TWalk",
                       "TRead", "TWrite", "TClunk", "TRemove"} -> <<body.fid>>
      [] body.typ \in {"TMkNod", "TMkDir"} -> <<body.dfid>>
      [] body.typ = "TRename" -> <<body.fid, body.dfid>>
      [] body.typ = "TLink" -> <<body.dfid, body.fid>>
      [] body.typ = "TRenameAt" -> <<body.olddirfid, body.newdirfid>>
      [] body.typ = "TUnlinkAt" -> <<body.dirfd>>
      [] body.typ \in {"TVersion", "TAuth", "TAttach", "TFlush"} -> <<>>

DeclaredTypes ==
    {"TStatFs", "TlOpen", "TlCreate", "TSymlink", "TMkNod", "TRename",
     "TReadLink", "TGetAttr", "TSetAttr", "TxAttrWalk", "TxAttrCreate",
     "TReadDir", "TFSync", "TLock", "TGetLock", "TLink", "TMkDir",
     "TRenameAt", "TUnlinkAt", "TVersion", "TAuth", "TAttach", "TFlush",
     "TWalk", "TRead", "TWrite", "TClunk", "TRemove"}

DeclaredMethod ==
    [ty \in DeclaredTypes |->
        CASE ty = "TStatFs" -> "rstatfs"        [] ty = "TlOpen" -> "rlopen"
          [] ty = "TlCreate" -> "rlcreate"      [] ty = "TSymlink" -> "rsymlink"
          [] ty = "TMkNod" -> "rmknod"          [] ty = "TRename" -> "rrename"
          [] ty = "TReadLink" -> "rreadlink"    [] ty = "TGetAttr" -> "rgetattr"
          [] ty = "TSetAttr" -> "rsetattr"      [] ty = "TxAttrWalk" -> "rxattrwalk"
          [] ty = "TxAttrCreate" -> "rxattrcreate"
          [] ty = "TReadDir" -> "rreaddir"      [] ty = "TFSync" -> "rfsync"
          [] ty = "TLock" -> "rlock"            [] ty = "TGetLock" -> "rgetlock"
          [] ty = "TLink" -> "rlink"            [] ty = "TMkDir" -> "rmkdir"
          [] ty = "TRenameAt" -> "rrenameat"    [] ty = "TUnlinkAt" -> "runlinkat"
          [] ty = "TVersion" -> "rversion"      [] ty = "TAuth" -> "rauth"
          [] ty = "TAttach" -> "rattach"        [] ty = "TFlush" -> "rflush"
          [] ty = "TWalk" -> "rwalk"            [] ty = "TRead" -> "rread"
          [] ty = "TWrite" -> "rwrite"          [] ty = "TClunk" -> "rclunk"
          [] ty = "TRemove" -> "rremove"]

\* does the request name fid f as an input fid?
NamesInput(body, f) ==
    \E i \in 1 .. Len(DeclaredInputs(body)) : DeclaredInputs(body)[i] = f

\* is some input fid of the request absent from the fid table?
SomeInputAbsent(body) ==
    \E i \in 1 .. Len(DeclaredInputs(body)) : DeclaredInputs(body)[i] \notin DOMAIN fsfids

\* does the request introduce fid f (Twalk.newfid, Tauth.afid, Tattach.fid,
\* TxattrWalk.newfid)?
Introduces(body, f) ==
    \/ body.typ \in {"TWalk", "TxAttrWalk"} /\ body.newfid = f
    \/ body.typ = "TAuth" /\ body.afid = f
    \/ body.typ = "TAttach" /\ body.fid = f

(***************************************************************************)
(* The steps of a task, as seen in a pair of states.                       *)
(***************************************************************************)
\* task w resolves its input fids and either calls the backend or fails
LookupStep(w) ==
    /\ w \in Tasks
    /\ tasks[w].pc \in {"start", "rwait"}
    /\ tasks'[w].pc \in {"backend", "reply"}

\* the backend call of task w returns
ReturnStep(w) ==
    /\ w \in Tasks
    /\ tasks[w].pc = "backend"
    /\ tasks'[w].pc # "backend"

\* task w, its backend call a success, updates the fid table
UpdateStep(w) ==
    /\ w \in Tasks
    /\ tasks[w].pc \in {"update", "wwait"}
    /\ tasks'[w].pc = "reply"

\* task w sends its reply, or drops it, and ends
FinishStep(w) ==
    /\ w \in Tasks
    /\ tasks[w].pc = "reply"
    /\ tasks'[w].pc = "done"

\* the reply with the tag of task w is the frame at index i of the output
ReplyAt(w, i) == i \in 1 .. Len(out) /\ out[i].tag = tasks[w].msg.tag

(***************************************************************************)
(* C1.  A Tclunk on fid F whose backend call succeeds removes F from the   *)
(* fid table before its Rclunk is sent; a request that names an absent fid *)
(* as an input is answered with Rlerror{EBADF}; and a fid that is absent   *)
(* becomes present only by the table update of a successful request that   *)
(* introduces it (Tattach, Twalk, Tauth, TxattrWalk).                      *)
(***************************************************************************)
ClunkedFidIsAbsent ==
    [][/\ \A w \in TaskIds :
          /\ (ReturnStep(w) /\ tasks[w].msg.body.typ = "TClunk" /\ tasks'[w].response.ok)
                => tasks'[w].pc = "update"
          /\ (UpdateStep(w) /\ tasks[w].msg.body.typ = "TClunk")
                => tasks[w].msg.body.fid \notin DOMAIN fsfids'
          /\ (LookupStep(w) /\ SomeInputAbsent(tasks[w].msg.body))
                => /\ tasks'[w].response = Err("EBADF")
                   /\ tasks'[w].pc = "reply"
          /\ (FinishStep(w) /\ tasks[w].response = Err("EBADF"))
                => out' = Append(out, [tag |-> tasks[w].msg.tag,
                                       body |-> [typ |-> "RlError", ecode |-> "EBADF"]])
       /\ \A f \in FidIds :
             (f \notin DOMAIN fsfids /\ f \in DOMAIN fsfids')
                => \E v \in TaskIds :
                      /\ UpdateStep(v)
                      /\ Introduces(tasks[v].msg.body, f)
                      /\ tasks[v].response.ok
      ]_vars

\* Rclunk for fid F has been sent, a request naming F was answered EBADF
\* after it, and F is absent
ClunkedThenEBADF ==
    \E w \in Tasks, v \in Tasks, i \in 1 .. Len(out), j \in 1 .. Len(out) :
        /\ w < v /\ i < j
        /\ tasks[w].msg.body.typ = "TClunk"
        /\ ReplyAt(w, i) /\ out[i].body.typ = "RClunk"
        /\ NamesInput(tasks[v].msg.body, tasks[w].msg.body.fid)
        /\ ReplyAt(v, j) /\ out[j].body = [typ |-> "RlError", ecode |-> "EBADF"]
        /\ tasks[w].msg.body.fid \notin DOMAIN fsfids

(***************************************************************************)
(* C2.  On a fresh connection a fid is absent from the fid table as long   *)
(* as no request introducing it has succeeded, and a request naming an     *)
(* absent fid fails with EBADF; the table update of a successful request   *)
(* that introduces F registers F; a request all of whose input fids are    *)
(* registered is passed to the backend; and a registered fid leaves the    *)
(* table only by the table update of a successful Tclunk on it.            *)
(***************************************************************************)
FidResolvesFromAttachToClunk ==
    /\ [](\A f \in DOMAIN fsfids :
             \E w \in Tasks : Introduces(tasks[w].msg.body, f) /\ tasks[w].response.ok)
    /\ [][/\ \A w \in TaskIds :
              /\ LookupStep(w)
                    => IF SomeInputAbsent(tasks[w].msg.body)
                       THEN tasks'[w].response = Err("EBADF") /\ tasks'[w].pc = "reply"
                       ELSE tasks'[w].pc = "backend"
              /\ \A f \in FidIds :
                    (UpdateStep(w) /\ Introduces(tasks[w].msg.body, f))
                       => f \in DOMAIN fsfids'
           /\ \A f \in FidIds :
                 (f \in DOMAIN fsfids /\ f \notin DOMAIN fsfids')
                    => \E v \in TaskIds :
                          /\ UpdateStep(v)
                          /\ tasks[v].msg.body = [typ |-> "TClunk", fid |-> f]
                          /\ tasks[v].response.ok
         ]_vars

\* a request naming F failed with EBADF, then Tattach introduced F, and a
\* later request naming F has been passed to the backend
AttachedFidResolves ==
    \E u \in Tasks, w \in Tasks, v \in Tasks :
        /\ u < w /\ w < v
        /\ tasks[w].msg.body.typ = "TAttach"
        /\ tasks[u].response = Err("EBADF")
        /\ NamesInput(tasks[u].msg.body, tasks[w].msg.body.fid)
        /\ tasks[w].response.ok /\ tasks[w].pc = "done"
        /\ NamesInput(tasks[v].msg.body, tasks[w].msg.body.fid)
        /\ tasks[v].pc = "backend"
        /\ tasks[w].msg.body.fid \in DOMAIN fsfids

DispatchCorrect ==
    [][\A w \in TaskIds :
          (LookupStep(w) /\ tasks[w].msg.body.typ \in DeclaredTypes)
             => IF SomeInputAbsent(tasks[w].msg.body)
                THEN /\ tasks'[w].response = Err("EBADF")
                     /\ tasks'[w].pc = "reply"
                     /\ tasks'[w].fut = NoFuture
                     /\ fsfids' = fsfids
                ELSE /\ tasks'[w].pc = "backend"
                     /\ tasks'[w].fut =
                           [method |-> DeclaredMethod[tasks[w].msg.body.typ],
                            args |-> DeclaredInputs(tasks[w].msg.body)]
                     /\ fsfids' = fsfids
      ]_vars

\* a Trename whose two distinct fids are registered has reached rrename
TwoFidsResolved ==
    \E w \in Tasks :
        /\ tasks[w].msg.body.typ = "TRename"
        /\ tasks[w].msg.body.fid # tasks[w].msg.body.dfid
        /\ tasks[w].pc = "backend"
        /\ tasks[w].fut = [method |-> "rrename",
                           args |-> <<tasks[w].msg.body.fid, tasks[w].msg.body.dfid>>]

(***************************************************************************)
(* Claims about a client that sends one request at a time: a task with a   *)
(* higher index was read after every task with a lower index had ended.    *)
(***************************************************************************)
\* has a request read after task w introduced fid f with success?
IntroducedAfter(w, f) ==
    \E v \in Tasks :
        /\ v > w
        /\ Introduces(tasks[v].msg.body, f)
        /\ tasks[v].response.ok

(***************************************************************************)
(* C5.  A Tclunk on a registered fid F whose backend rclunk returns an     *)
(* error still removes F from the fid table: once its Rlerror is sent, F   *)
(* is absent until a later request introduces it again.                    *)
(***************************************************************************)
FailedClunkRemovesFid ==
    \A w \in Tasks :
        (/\ tasks[w].msg.body.typ = "TClunk"
         /\ tasks[w].fut.method = "rclunk"
         /\ ~tasks[w].response.ok
         /\ tasks[w].pc = "done"
         /\ ~IntroducedAfter(w, tasks[w].msg.body.fid))
            => tasks[w].msg.body.fid \notin DOMAIN fsfids

(***************************************************************************)
(* C6.  A Tremove on a registered fid F destroys F whether the backend     *)
(* rremove succeeds or fails: once its reply is sent, F is absent until a  *)
(* later request introduces it again.                                      *)
(***************************************************************************)
RemoveDestroysFid ==
    \A w \in Tasks :
        (/\ tasks[w].msg.body.typ = "TRemove"
         /\ tasks[w].fut.method = "rremove"
         /\ tasks[w].pc = "done"
         /\ ~IntroducedAfter(w, tasks[w].msg.body.fid))
            => tasks[w].msg.body.fid \notin DOMAIN fsfids

(***************************************************************************)
(* C7.  A Tversion empties the fid table: once its Rversion is sent, the   *)
(* only registered fids are those introduced by later requests.            *)
(***************************************************************************)
VersionEmptiesTable ==
    \A w \in Tasks :
        (/\ tasks[w].msg.body.typ = "TVersion"
         /\ tasks[w].response.ok
         /\ tasks[w].response.fcall.typ = "RVersion"
         /\ tasks[w].pc = "done")
            => \A f \in DOMAIN fsfids : IntroducedAfter(w, f)

(***************************************************************************)
(* C8.  A Twalk with nonempty wnames whose Rwalk carries fewer qids than   *)
(* names does not register newfid: the table update of that request        *)
(* leaves the fid table as it was.                                         *)
(***************************************************************************)
PartialWalkRegistersNothing ==
    [][\A w \in TaskIds :
          (/\ UpdateStep(w)
           /\ tasks[w].msg.body.typ = "TWalk"
           /\ tasks[w].msg.body.wnames # <<>>
           /\ tasks[w].response.fcall.typ = "RWalk"
           /\ Len(tasks[w].response.fcall.wqids) < Len(tasks[w].msg.body.wnames))
             => fsfids' = fsfids
      ]_vars

(***************************************************************************)
(* Requests put to the reference backend on a fid, to compare two fids.    *)
(***************************************************************************)
\* requests whose result depends on the fid's path only
PathProbes ==
    {[typ |-> ty, fid |-> 0] : ty \in {"TGetAttr", "TlOpen"}} \cup
    {[typ |-> "TWalk", fid |-> 0, newfid |-> NOFID, wnames |-> ns] :
        ns \in SeqsUpTo(Names, MaxWalk)}

Probes == PathProbes \cup {[typ |-> "TRead", fid |-> 0, offset |-> 0, count |-> 4096]}

\* would the request p, put on fid f, succeed with the fid table fids?
Succeeds(p, f, fids) ==
    \A o \in UnpfsCall(DeclaredMethod[p.typ], <<f>>, p, fids, FId(NOFID, DefaultAux)) :
        o.result.ok

\* task w is a Twalk with no names that succeeded and now updates the table
EmptyWalkUpdate(w) ==
    /\ UpdateStep(w)
    /\ tasks[w].msg.body.typ = "TWalk"
    /\ tasks[w].msg.body.wnames = <<>>

\* the table update of a Tclunk leaves every other fid as it was
ClunkLeavesOthers(w) ==
    (UpdateStep(w) /\ tasks[w].msg.body.typ = "TClunk")
       => \A h \in DOMAIN fsfids \ {tasks[w].msg.body.fid} :
             h \in DOMAIN fsfids' /\ fsfids'[h] = fsfids[h]

(***************************************************************************)
(* C9, as stated.  A successful Twalk with empty wnames from a registered  *)
(* fid F registers newfid as an alias of F, with the same path; every      *)
(* request succeeds on newfid exactly when it succeeds on F; and clunking  *)
(* one fid leaves the other registered.                                    *)
(***************************************************************************)
EmptyWalkAliases ==
    [][\A w \in TaskIds :
          /\ EmptyWalkUpdate(w)
                => LET F == tasks[w].msg.body.fid
                       N == tasks[w].msg.body.newfid
                   IN  /\ F \in DOMAIN fsfids' /\ N \in DOMAIN fsfids'
                       /\ fsfids'[N].aux.realpath = fsfids'[F].aux.realpath
                       /\ \A p \in Probes :
                             Succeeds(p, N, fsfids') = Succeeds(p, F, fsfids')
          /\ ClunkLeavesOthers(w)
      ]_vars

(***************************************************************************)
(* C9, amended.  A successful Twalk with empty wnames from a registered    *)
(* fid F registers newfid with a copy of F's path and depth and with no    *)
(* open file: right after it, the requests that depend on the path only    *)
(* (Tgetattr, Tlopen, Twalk) succeed on newfid exactly when they succeed   *)
(* on F, and Tread fails on newfid, whether or not F is open; the table    *)
(* update of a Tclunk leaves every other fid registered and unchanged.     *)
(***************************************************************************)
EmptyWalkCopiesPath ==
    [][\A w \in TaskIds :
          /\ EmptyWalkUpdate(w)
                => LET F == tasks[w].msg.body.fid
                       N == tasks[w].msg.body.newfid
                   IN  /\ N \in DOMAIN fsfids'
                       /\ fsfids'[N] = FId(N, [realpath |-> fsfids[F].aux.realpath,
                                               file |-> FALSE,
                                               depth |-> fsfids[F].aux.depth])
                       /\ \A p \in PathProbes :
                             Succeeds(p, N, fsfids') = Succeeds(p, F, fsfids)
                       /\ ~Succeeds([typ |-> "TRead", fid |-> 0, offset |-> 0, count |-> 4096], N, fsfids')
                       /\ N # F => fsfids'[F] = fsfids[F]
          /\ ClunkLeavesOthers(w)
      ]_vars

\* an open fid has been cloned by a Twalk with no names: both fids are
\* registered with the same path, the source is open and the clone is not
OpenFidCloned ==
    \E w \in Tasks :
        /\ tasks[w].msg.body.typ = "TWalk"
        /\ tasks[w].msg.body.wnames = <<>>
        /\ tasks[w].response.ok
        /\ tasks[w].pc = "done"
        /\ tasks[w].msg.body.fid # tasks[w].msg.body.newfid
        /\ tasks[w].msg.body.fid \in DOMAIN fsfids
        /\ tasks[w].msg.body.newfid \in DOMAIN fsfids
        /\ fsfids[tasks[w].msg.body.fid].aux.realpath =
              fsfids[tasks[w].msg.body.newfid].aux.realpath
        /\ fsfids[tasks[w].msg.body.fid].aux.file
        /\ ~fsfids[tasks[w].msg.body.newfid].aux.file

(***************************************************************************)
(* C10, as stated.  For every request whose task has ended, exactly one    *)
(* reply frame has been written, and it carries the request's tag; every   *)
(* frame written is the reply of a request.                                *)
(***************************************************************************)
ExactlyOneReply ==
    /\ \A w \in Tasks :
          tasks[w].pc = "done" => Cardinality({i \in 1 .. Len(out) : ReplyAt(w, i)}) = 1
    /\ \A i \in 1 .. Len(out) : \E w \in Tasks : ReplyAt(w, i)

(***************************************************************************)
(* C10, amended.  Every frame written is the reply of a distinct request   *)
(* whose task has ended: it carries that request's tag and, as its body,   *)
(* the R-message the backend returned or the Rlerror of the error; no      *)
(* request has more than one reply; and a request whose task has ended has *)
(* its reply when the result is an error or an R-message and the transport *)
(* still accepts frames.                                                   *)
(***************************************************************************)
AtMostOneReply ==
    /\ \A i \in 1 .. Len(out) :
          \E w \in Tasks :
             /\ ReplyAt(w, i)
             /\ tasks[w].pc = "done"
             /\ out[i].body.typ \in RTypes
             /\ out[i].body = IF tasks[w].response.ok THEN tasks[w].response.fcall
                              ELSE [typ |-> "RlError", ecode |-> tasks[w].response.errno]
    /\ \A i \in 1 .. Len(out), j \in 1 .. Len(out) : i # j => out[i].tag # out[j].tag
    /\ \A w \in Tasks :
          (/\ tasks[w].pc = "done"
           /\ wopen
           /\ (~tasks[w].response.ok \/ tasks[w].response.fcall.typ \in RTypes))
             => \E i \in 1 .. Len(out) : ReplyAt(w, i)

\* two requests were in flight together and the later one was answered
\* first; a third has ended without a reply
RepliesOutOfOrder ==
    /\ Len(out) = 2
    /\ Len(tasks) = 3
    /\ ReplyAt(2, 1) /\ ReplyAt(1, 2)
    /\ tasks[3].pc = "done"

(***************************************************************************)
(* C11.  Under any interleaving of the tasks of a connection at most one   *)
(* task is sending at a time, and it holds the writer; and the pieces on   *)
(* the wire form whole frames one after the other: a piece that is not     *)
(* the first of its frame follows the piece before it of the same frame,   *)
(* and a first piece follows the last piece of another frame.              *)
(***************************************************************************)
FramesContiguous ==
    /\ \A w \in Tasks, v \in Tasks :
          (tasks[w].pc = "send" /\ tasks[v].pc = "send") => w = v
    /\ \A w \in Tasks : tasks[w].pc = "send" => wmutex = w
    /\ \A i \in 1 .. Len(wire) :
          IF wire[i].part = 1
          THEN i > 1 => wire[i - 1].part = FrameChunks
          ELSE /\ i > 1
               /\ wire[i - 1].tag = wire[i].tag
               /\ wire[i - 1].part = wire[i].part - 1

\* a task has written part of its frame and holds the writer while another
\* task has its reply ready, after a whole frame of a third
WriterContended ==
    \E w \in Tasks, v \in Tasks :
        /\ tasks[w].pc = "send"
        /\ Cardinality(Written(w)) = 1
        /\ tasks[v].pc = "reply"
        /\ is_r(ResponseFcall(tasks[v].response))
        /\ Len(wire) = FrameChunks + 1

(***************************************************************************)
(* The requests that caused the presence or the absence of a fid.          *)
(***************************************************************************)
\* task w is the only task whose request introduced f with success
OnlyIntroducer(w, f) ==
    /\ Introduces(tasks[w].msg.body, f)
    /\ tasks[w].response.ok
    /\ \A u \in Tasks \ {w} :
          ~(Introduces(tasks[u].msg.body, f) /\ tasks[u].response.ok)

\* the table update of task w is made and its reply is not yet with the writer
UpdatedNotReplied(w) ==
    /\ tasks[w].pc = "reply"
    /\ tasks[w].response.ok
    /\ tasks[w].fut.method # "none"

(***************************************************************************)
(* C12, as stated.  The table update of a request is not observable by     *)
(* the fid lookup of another request until the reply of the first is       *)
(* handed to the writer: no task has resolved fid f while the only task    *)
(* that introduced f has not yet sent its reply.                           *)
(***************************************************************************)
UpdateHiddenUntilReply ==
    \A w \in Tasks, v \in Tasks, f \in FidIds :
        (/\ w # v
         /\ OnlyIntroducer(w, f)
         /\ UpdatedNotReplied(w))
           => ~(NamesInput(tasks[v].msg.body, f) /\ tasks[v].pc = "backend")

(***************************************************************************)
(* C12, amended.  The table update of a request is made after its backend  *)
(* call has succeeded and before its reply is handed to the writer: a      *)
(* successful request that introduces or clunks a fid goes to its update   *)
(* before its reply; the table changes in update steps only; the update    *)
(* registers the new fid and removes the clunked one; and a fid that a     *)
(* lookup resolves was introduced by a request whose update is made, be    *)
(* its reply sent or not.                                                  *)
(***************************************************************************)
UpdateBeforeReply ==
    [][/\ \A w \in TaskIds :
             /\ (/\ ReturnStep(w)
                 /\ tasks'[w].response.ok
                 /\ \/ tasks[w].msg.body.typ = "TClunk"
                    \/ \E f \in FidIds : Introduces(tasks[w].msg.body, f))
                   => tasks'[w].pc = "update"
             /\ \A f \in FidIds :
                   /\ (UpdateStep(w) /\ Introduces(tasks[w].msg.body, f))
                         => f \in DOMAIN fsfids'
                   /\ (UpdateStep(w) /\ tasks[w].msg.body = [typ |-> "TClunk", fid |-> f])
                         => f \notin DOMAIN fsfids'
                   /\ (LookupStep(w) /\ NamesInput(tasks[w].msg.body, f)
                                     /\ tasks'[w].pc = "backend")
                         => \E u \in Tasks :
                               /\ Introduces(tasks[u].msg.body, f)
                               /\ tasks[u].response.ok
                               /\ tasks[u].pc \in {"reply", "done"}
       /\ (DOMAIN fsfids' # DOMAIN fsfids) => \E w \in TaskIds : UpdateStep(w)
      ]_vars

\* a task has resolved fid f while the only task that introduced f has made
\* its update and has not yet sent its reply
UpdateSeenBeforeReply ==
    \E w \in Tasks, v \in Tasks, f \in FidIds :
        /\ w # v
        /\ OnlyIntroducer(w, f)
        /\ UpdatedNotReplied(w)
        /\ NamesInput(tasks[v].msg.body, f)
        /\ tasks[v].pc = "backend"

\* where task w is, "unread" when its frame has not been read
PcOf(w) == IF w \in Tasks THEN tasks[w].pc ELSE "unread"

(***************************************************************************)
(* C13.  A long backend call of request A does not block the requests      *)
(* read after it: while the backend call of the first request is running,  *)
(* every later request that has been read, also one that must change the   *)
(* fid table and one read while such a change is waiting, comes to its     *)
(* end (its reply written) or A's call has ended by then.                  *)
(***************************************************************************)
NoHeadOfLineBlocking ==
    \A b \in TaskIds \ {1} :
        (PcOf(b) # "unread" /\ PcOf(1) = "backend")
           ~> (PcOf(b) = "done" \/ PcOf(1) # "backend")

(***************************************************************************)
(* C14.  Once the Rflush of a Tflush{oldtag} is written, no reply with     *)
(* the tag oldtag is written after it: the reply of the flushed request    *)
(* is on the output before the Rflush, or never.                           *)
(***************************************************************************)
NoReplyAfterRflush ==
    \A w \in Tasks, i \in 1 .. Len(out), j \in 1 .. Len(out) :
        (/\ tasks[w].msg.body.typ = "TFlush"
         /\ ReplyAt(w, i)
         /\ out[i].body.typ = "RFlush"
         /\ j > i)
           => out[j].tag # tasks[w].msg.body.oldtag

(***************************************************************************)
(* The steps of a Tflush served by a backend that leaves rflush alone.     *)
(***************************************************************************)
\* task w is a Tflush
IsFlush(w) == w \in Tasks /\ tasks[w].msg.body.typ = "TFlush"

\* the step leaves the fid table and every task but w as they were
OthersUntouched(w) ==
    /\ fsfids' = fsfids
    /\ \A v \in Tasks \ {w} : tasks'[v] = tasks[v]

\* the steps of a Tflush up to its reply: rflush is called with no fids,
\* and nothing but the Tflush's own task changes
FlushIsNoOp(w) ==
    /\ (IsFlush(w) /\ LookupStep(w))
          => /\ tasks'[w].pc = "backend"
             /\ tasks'[w].fut = [method |-> "rflush", args |-> <<>>]
             /\ OthersUntouched(w)
    /\ (IsFlush(w) /\ ReturnStep(w))
          => /\ tasks'[w].pc = "reply"
             /\ OthersUntouched(w)

NotOverridden(method) == method \notin UnpfsMethods \cup {"rversion", "none"}

DefaultMethodAnswered ==
    [][\A w \in TaskIds :
          /\ (ReturnStep(w) /\ NotOverridden(tasks[w].fut.method))
                => /\ tasks'[w].response = Err("EOPNOTSUPP")
                   /\ tasks'[w].pc = "reply"
                   /\ fsfids' = fsfids
          /\ (FinishStep(w) /\ NotOverridden(tasks[w].fut.method))
                => /\ out' = Append(out, [tag |-> tasks[w].msg.tag,
                                          body |-> [typ |-> "RlError",
                                                    ecode |-> "EOPNOTSUPP"]])
                   /\ rdloop' = "running"
                   /\ wopen'
                   /\ fsfids' = fsfids
      ]_vars

\* a Trename on registered fids was answered EOPNOTSUPP, and the request
\* read after it has reached its backend method
ServedAfterEOPNOTSUPP ==
    \E w \in Tasks, i \in 1 .. Len(out) :
        /\ w + 1 \in Tasks
        /\ tasks[w].msg.body.typ = "TRename"
        /\ tasks[w].fut.method = "rrename"
        /\ ReplyAt(w, i)
        /\ out[i].body = [typ |-> "RlError", ecode |-> "EOPNOTSUPP"]
        /\ tasks[w + 1].pc = "backend"
        /\ rdloop = "running"

(***************************************************************************)
(* C17.  The default rversion answers a Tversion with Rversion whose       *)
(* version is "9P2000.L" exactly when the client offered "9P2000.L", and   *)
(* "unknown" for every other offered string; the Rversion is sent with     *)
(* the tag of the Tversion.                                                *)
(***************************************************************************)
VersionEchoedIffL ==
    [][\A w \in TaskIds :
          /\ (ReturnStep(w) /\ tasks[w].msg.body.typ = "TVersion")
                => /\ tasks'[w].response.ok
                   /\ tasks'[w].response.fcall.typ = "RVersion"
                   /\ tasks'[w].response.fcall.version =
                         IF tasks[w].msg.body.version = "9P2000.L"
                         THEN "9P2000.L" ELSE "unknown"
          /\ (FinishStep(w) /\ tasks[w].msg.body.typ = "TVersion")
                => out' = Append(out, [tag |-> tasks[w].msg.tag,
                                       body |-> tasks[w].response.fcall])
      ]_vars

\* "9P2000.L" was echoed, and "9P2000" and a string that differs from
\* "9P2000.L" in case only were answered "unknown"
VersionsAnswered ==
    /\ 3 \in Tasks
    /\ \E i \in 1 .. Len(out), j \in 1 .. Len(out), k \in 1 .. Len(out) :
        /\ ReplyAt(1, i) /\ tasks[1].msg.body.version = "9P2000.L"
        /\ out[i].body.version = "9P2000.L"
        /\ ReplyAt(2, j) /\ tasks[2].msg.body.version = "9P2000"
        /\ out[j].body.version = "unknown"
        /\ ReplyAt(3, k) /\ tasks[3].msg.body.version = "9p2000.l"
        /\ out[k].body.version = "unknown"

(***************************************************************************)
(* C18.  The msize of an Rversion is the smaller of the msize the client   *)
(* offered and the server's own maximum message size, the longest frame    *)
(* its transport takes.                                                    *)
(***************************************************************************)
MsizeIsMin ==
    \A w \in Tasks :
        (/\ tasks[w].msg.body.typ = "TVersion"
         /\ tasks[w].response.ok
         /\ tasks[w].response.fcall.typ = "RVersion")
           => tasks[w].response.fcall.msize =
                 IF tasks[w].msg.body.msize <= max_frame_length
                 THEN tasks[w].msg.body.msize ELSE max_frame_length

(***************************************************************************)
(* C19.  Once an Rversion has carried an msize, the data of every Rread    *)
(* written after it is at most msize - IOHDRSZ bytes long, whatever count  *)
(* the Tread asked for.                                                    *)
(***************************************************************************)
ReadFitsMsize ==
    \A i \in 1 .. Len(out), j \in 1 .. Len(out) :
        (/\ i < j
         /\ out[i].body.typ = "RVersion"
         /\ \A k \in (i + 1) .. (j - 1) : out[k].body.typ # "RVersion"
         /\ out[j].body.typ = "RRead")
           => out[j].body.data <= out[i].body.msize - IOHDRSZ

Conns == {1, 2}
Accepted(c) == c = focus \/ parked # <<>>
\* the state of the accepted connection c
ConnOf(c) ==
    IF c = focus
    THEN [fsfids |-> fsfids, tasks |-> tasks, out |-> out]
    ELSE [fsfids |-> parked[1].fsfids, tasks |-> parked[1].tasks, out |-> parked[1].out]

FidsScopedToConnection ==
    [][\A c \in Conns :
          /\ (~Accepted(c) /\ Accepted(c)') => ConnOf(c)'.fsfids = <<>>
          /\ (Accepted(c) /\ ConnOf(c)'.fsfids # ConnOf(c).fsfids)
                => /\ c = focus /\ focus' = focus
                   /\ \E w \in Tasks :
                         /\ tasks'[w].pc # tasks[w].pc
                         /\ \A f \in FidIds :
                               (f \in DOMAIN fsfids') # (f \in DOMAIN fsfids)
                                  => f = tasks[w].msg.body.fid
      ]_vars

\* fid 0 is registered on one connection and absent on the other, where a
\* Tgetattr that named it was answered EBADF and a Tattach then registered
\* fid 1
FidOnOneConnectionOnly ==
    /\ parked # <<>>
    /\ \E c \in Conns :
          /\ 0 \in DOMAIN ConnOf(c).fsfids
          /\ DOMAIN ConnOf(3 - c).fsfids = {1}
          /\ Len(ConnOf(3 - c).out) = 2
          /\ ConnOf(3 - c).tasks[1].msg.body = [typ |-> "TGetAttr", fid |-> 0]
          /\ ConnOf(3 - c).out[1].body = RlError(errno("EBADF"))

(***************************************************************************)
(* C22.  Once the read loop has stopped (end of stream, read error or a    *)
(* frame that does not decode) it stays stopped and no further frame       *)
(* becomes a task, while every task spawned before runs to its end.        *)
(***************************************************************************)
ReadLoopStopsAndDrains ==
    /\ [][rdloop = "stopped" => (rdloop' = "stopped" /\ Len(tasks') = Len(tasks))]_vars
    /\ \A w \in TaskIds :
          (rdloop = "stopped" /\ w \in Tasks) ~> (PcOf(w) = "done")

\* the loop has stopped with frames still allowed, one task is awaiting its
\* backend call and another has yet to start
WorkersOutliveLoop ==
    /\ rdloop = "stopped"
    /\ Len(tasks) = 2
    /\ tasks[1].pc = "backend"
    /\ tasks[2].pc = "start"

(***************************************************************************)
(* C23.  A task that fails, its backend call returning an error or the     *)
(* serialization of its reply failing, leaves the read loop running and    *)
(* the transport open: a reply that cannot be serialized is dropped, an    *)
(* error becomes the task's Rlerror, and the loop is still ready to read   *)
(* the next frame.                                                         *)
(***************************************************************************)
\* task w ends without sending the R-message it had
SerializeFailure(w) ==
    /\ FinishStep(w)
    /\ is_r(ResponseFcall(tasks[w].response))
    /\ out' = out

WorkerFailureKeepsLoop ==
    [][\A w \in TaskIds :
          /\ SerializeFailure(w)
                => /\ rdloop' = "running" /\ wopen' /\ wire' = wire
                   /\ fsfids' = fsfids
          /\ (ReturnStep(w) /\ ~tasks'[w].response.ok)
                => /\ rdloop' = "running" /\ wopen'
                   /\ tasks'[w].pc = "reply"
                   /\ ResponseFcall(tasks'[w].response) =
                         RlError(errno(tasks'[w].response.errno))
      ]_vars

\* the reply of the first request could not be serialized and was dropped;
\* the second request, read after that, was answered
AnsweredAfterDroppedReply ==
    /\ Len(tasks) = 2
    /\ tasks[1].pc = "done" /\ tasks[2].pc = "done"
    /\ is_r(ResponseFcall(tasks[1].response))
    /\ Len(out) = 1
    /\ out[1].tag = tasks[2].msg.tag
    /\ out[1].body.typ = "RAttach"

(***************************************************************************)
(* C24.  Once the send of a task's reply has failed on the transport, the  *)
(* read loop reads no further frame: no task is spawned after it.          *)
(***************************************************************************)
\* task w had an R-message to send and ended without it being written
SendFailed(w) ==
    /\ w \in Tasks
    /\ tasks[w].pc = "done"
    /\ is_r(ResponseFcall(tasks[w].response))
    /\ \A i \in 1 .. Len(out) : out[i].tag # tasks[w].msg.tag

WriteFailureStopsLoop ==
    [][(\E w \in TaskIds : SendFailed(w))
          => Len(tasks') = Len(tasks)]_vars

(***************************************************************************)
(* C29.  The fid table is not changed while a backend call is in progress: *)
(* a step that changes the table is taken when no task awaits its backend  *)
(* call, so the records handed to a running call stay in the table, as     *)
(* they were, until the call returns.                                      *)
(***************************************************************************)
NoUpdateDuringCall ==
    [][/\ fsfids' # fsfids => \A w \in Tasks : tasks[w].pc # "backend"
       /\ \A w \in Tasks :
             (tasks[w].pc = "backend" /\ tasks'[w].pc = "backend")
                => \A i \in 1 .. Len(tasks[w].fut.args) :
                      /\ tasks[w].fut.args[i] \in DOMAIN fsfids'
                      /\ fsfids'[tasks[w].fut.args[i]] = fsfids[tasks[w].fut.args[i]]
      ]_vars

\* a Tclunk of fid 0 waits for the write lock while the backend call of a
\* request on fid 0 is still running
ClunkWaitsForCall ==
    \E w \in Tasks, v \in Tasks :
        /\ tasks[w].pc = "backend"
        /\ tasks[w].fut.args = <<0>>
        /\ tasks[v].pc = "wwait"
        /\ tasks[v].msg.body = [typ |-> "TClunk", fid |-> 0]

(***************************************************************************)
(* C30.  In unpfs, a Twalk with n >= 1 names whose first component does    *)
(* not resolve is answered with an error and registers no newfid; one      *)
(* whose first component resolves and a later one does not is answered     *)
(* Rwalk with fewer than n qids, and its newfid is registered.             *)
(***************************************************************************)
\* the first i names of the Twalk of task w resolve from the path of its fid
Resolves(w, i) ==
    Resolve(fsfids[tasks[w].msg.body.fid].aux.realpath \o
            SubSeq(tasks[w].msg.body.wnames, 1, i)) # NoEnt

WalkReturns(w) ==
    /\ ReturnStep(w)
    /\ tasks[w].msg.body.typ = "TWalk"
    /\ Len(tasks[w].msg.body.wnames) >= 1

\* the depth unpfs counts after the names of a walk that starts at depth
RECURSIVE DepthAlong(_, _)
DepthAlong(depth, names) ==
    IF names = <<>> THEN depth
    ELSE DepthAlong(IF Head(names) = ".." THEN (IF depth = 0 THEN 0 ELSE depth - 1)
                    ELSE IF Head(names) = "." THEN depth
                    ELSE depth + 1,
                    Tail(names))

\* the i-th name of the Twalk of task w takes the walk past the depth limit
TooDeep(w, i) ==
    /\ tasks[w].msg.body.wnames[i] \notin {".", ".."}
    /\ DepthAlong(fsfids[tasks[w].msg.body.fid].aux.depth,
                  SubSeq(tasks[w].msg.body.wnames, 1, i)) > MaxDepth

\* the first name of the walk of task w that does not resolve is the k-th,
\* and no name up to it goes past the depth limit
FirstUnresolved(w, k) ==
    /\ ~Resolves(w, k)
    /\ \A i \in 1 .. (k - 1) : Resolves(w, i)
    /\ \A i \in 1 .. k : ~TooDeep(w, i)

WalkErrorOrPartial ==
    [][\A w \in TaskIds :
          /\ (WalkReturns(w) /\ ~Resolves(w, 1))
                => /\ ~tasks'[w].response.ok
                   /\ tasks'[w].pc = "reply"
                   /\ fsfids' = fsfids
          /\ (/\ WalkReturns(w) /\ Resolves(w, 1)
              /\ \E i \in 2 .. Len(tasks[w].msg.body.wnames) : ~Resolves(w, i))
                => /\ tasks'[w].response.ok
                   /\ tasks'[w].response.fcall.typ = "RWalk"
                   /\ Len(tasks'[w].response.fcall.wqids) < Len(tasks[w].msg.body.wnames)
                   /\ tasks'[w].pc = "update"
          /\ (UpdateStep(w) /\ tasks[w].msg.body.typ = "TWalk")
                => tasks[w].msg.body.newfid \in DOMAIN fsfids'
      ]_vars

\* C30, with the depth limit of unpfs taken into account: a walk whose
\* first name does not resolve, or that goes past the depth limit at or
\* before the first name that does not resolve, is answered with an error
\* and registers nothing; a walk whose first unresolved name is a later one,
\* reached within the depth limit, is answered Rwalk with the qids of the
\* names before it, and its newfid is registered.
WalkErrorOrPartialWithinDepth ==
    [][\A w \in TaskIds :
          /\ (WalkReturns(w) /\ ~Resolves(w, 1))
                => /\ ~tasks'[w].response.ok
                   /\ tasks'[w].pc = "reply"
                   /\ fsfids' = fsfids
          /\ (/\ WalkReturns(w)
              /\ \E k \in 1 .. Len(tasks[w].msg.body.wnames) :
                    /\ TooDeep(w, k)
                    /\ \A i \in 1 .. (k - 1) : Resolves(w, i))
                => /\ tasks'[w].response = Err("ELOOP")
                   /\ tasks'[w].pc = "reply"
                   /\ fsfids' = fsfids
          /\ \A k \in 2 .. MaxWalk :
                (/\ WalkReturns(w) /\ k <= Len(tasks[w].msg.body.wnames)
                 /\ FirstUnresolved(w, k))
                   => /\ tasks'[w].response.ok
                      /\ tasks'[w].response.fcall.typ = "RWalk"
                      /\ Len(tasks'[w].response.fcall.wqids) = k - 1
                      /\ tasks'[w].pc = "update"
          /\ (UpdateStep(w) /\ tasks[w].msg.body.typ = "TWalk")
                => tasks[w].msg.body.newfid \in DOMAIN fsfids'
      ]_vars

\* a Twalk of two names was answered Rwalk with one qid and its newfid
\* (fid 1) is registered, and a Twalk whose first name does not resolve was
\* answered with an error
PartialWalkRegistered ==
    \E w \in Tasks, v \in Tasks :
        /\ tasks[w].pc = "done"
        /\ tasks[w].msg.body.typ = "TWalk"
        /\ tasks[w].msg.body.newfid = 1
        /\ Len(tasks[w].msg.body.wnames) = 2
        /\ tasks[w].response.ok
        /\ Len(tasks[w].response.fcall.wqids) = 1
        /\ 1 \in DOMAIN fsfids
        /\ tasks[v].pc = "done"
        /\ tasks[v].msg.body.typ = "TWalk"
        /\ tasks[v].response = Err("ENOENT")


(***************************************************************************)
(* C26: the u32 that precedes the entries of a DirEntryData is their total *)
(* size in bytes on both sides: the encoder writes the sum of the encoded  *)
(* sizes of the entries, and the decoder reads entries until exactly that  *)
(* many bytes are consumed, so that the listing read is the listing        *)
(* written.                                                                *)
(***************************************************************************)
DirEntryPrefixIsByteSize ==
    codec.stage = "decoded" /\ codec.msg.body.typ = "RReadDir" =>
        /\ FromLE(SubSeq(write_msg(codec.msg), 4, 7)) = Len(write_msg(codec.msg)) - 7
        /\ codec.result.ok
        /\ codec.result.val.body.data = codec.msg.body.data

\* a listing of one entry was written and read back
ListingDecoded ==
    /\ codec.stage = "decoded"
    /\ codec.msg.body.typ = "RReadDir"
    /\ Len(codec.msg.body.data) = 1

(***************************************************************************)
(* C25: read_msg(write_msg(m)) is m for every variant of FCall whose       *)
(* fields are well-formed, an RReadDir with one entry or more and an       *)
(* RGetAttr included.                                                      *)
(***************************************************************************)
RoundTrip ==
    codec.stage = "decoded" =>
        codec.result.ok /\ codec.result.val = codec.msg

\* the round trip of every message but a listing with entries
RoundTripButListings ==
    /\ codec.stage = "decoded"
    /\ ~ (codec.msg.body.typ = "RReadDir" /\ codec.msg.body.data # <<>>)
    => codec.result.ok /\ codec.result.val = codec.msg

\* the listing with entries never comes back
ListingsNeverReturn ==
    /\ codec.stage = "decoded"
    /\ codec.msg.body.typ = "RReadDir" /\ codec.msg.body.data # <<>>
    => ~ codec.result.ok

(***************************************************************************)
(* C27: of every reply written, the first four bytes are the length of the *)
(* whole frame, those four bytes included, in little-endian order; the     *)
(* fifth byte is the type of the message; the sixth and seventh are the    *)
(* tag, little-endian.                                                     *)
(***************************************************************************)
ReplyFrameLayout ==
    codec.stage = "sent" /\ is_r(codec.msg.body) =>
        /\ Len(codec.bytes) >= 7
        /\ codec.bytes[1] + 256 * codec.bytes[2] + 65536 * codec.bytes[3]
              + 16777216 * codec.bytes[4] = Len(codec.bytes)
        /\ codec.bytes[5] = MsgTypeByte[codec.msg.body.typ]
        /\ codec.bytes[6] + 256 * codec.bytes[7] = codec.msg.tag

\* an RRead with data and a tag of two different bytes is on the wire
ReplyFramed ==
    /\ codec.stage = "sent"
    /\ codec.msg.body.typ = "RRead"
    /\ codec.msg.body.data # <<>>
    /\ codec.msg.tag = 258

(***************************************************************************)
(* C28: read_msg accepts a type byte exactly when it is one of the table   *)
(* of message types, Tlerror (6) not among them.  A frame with any other   *)
(* type byte, 6, 106-107, 112-115 and 124-127 included, fails to decode,   *)
(* ends the read loop and is not dispatched; a frame with a type byte of   *)
(* the table is never refused for its type, and once decoded it is         *)
(* dispatched.                                                             *)
(***************************************************************************)
TypeTable ==
    {7} \cup (8 .. 9) \cup (12 .. 27) \cup (30 .. 33) \cup (40 .. 41) \cup (50 .. 55)
        \cup (70 .. 77) \cup (100 .. 105) \cup (108 .. 111) \cup (116 .. 123)

\* the frames write_msg produces, a listing with entries left aside
WrittenFrames ==
    {write_msg(m) : m \in {w \in WireMsgs :
        w.tag = 258 /\ ~ (w.body.typ = "RReadDir" /\ w.body.data # <<>>)}}

OnlyTableTypesDecoded ==
    /\ \A b \in TypeTable : \E bytes \in WrittenFrames : bytes[1] = b
    /\ codec.stage = "read" =>
        IF codec.bytes[1] \in TypeTable
        THEN /\ codec.result.err # "Invalid message type"
             /\ codec.bytes \in WrittenFrames => codec.result.ok
             /\ codec.result.ok =>
                   /\ Len(tasks) = codec.before + 1
                   /\ tasks[Len(tasks)].msg = codec.result.val
                   /\ MsgTypeByte[codec.result.val.body.typ] = codec.bytes[1]
        ELSE /\ ~ codec.result.ok
             /\ Len(codec.bytes) >= 3 => codec.result.err = "Invalid message type"
             /\ Len(tasks) = codec.before
             /\ rdloop = "stopped"

\* a frame of the legacy type Topen, whole but for its type, was refused
LegacyTypeRefused ==
    /\ codec.stage = "read"
    /\ codec.bytes[1] = 112
    /\ Len(codec.bytes) = 7
    /\ ~ codec.result.ok
    /\ rdloop = "stopped"

(***************************************************************************)
(* C31.  Served by unpfs, which leaves rauth to the trait, every Tauth is  *)
(* answered with Rlerror{EOPNOTSUPP} and does not register its afid: the   *)
(* table is as it was before the Tauth, and a later request that names the *)
(* afid, no Tattach having registered that fid, is answered EBADF.         *)
(***************************************************************************)
IsAuth(w) == w \in Tasks /\ tasks[w].msg.body.typ = "TAuth"

\* a Tattach read before request w whose fid is f
AttachedBefore(w, f) ==
    \E v \in 1 .. (w - 1) :
        tasks[v].msg.body.typ = "TAttach" /\ tasks[v].msg.body.fid = f

AuthRefusedStep ==
    \A w \in TaskIds :
        IsAuth(w) /\ tasks'[w].pc # tasks[w].pc =>
            /\ fsfids' = fsfids
            /\ tasks'[w].pc \in {"backend", "reply", "done"}
            /\ tasks'[w].pc = "reply" => tasks'[w].response = Err("EOPNOTSUPP")
            /\ tasks'[w].pc = "done" =>
                  out' = Append(out, [tag |-> tasks[w].msg.tag,
                                      body |-> [typ |-> "RlError",
                                                ecode |-> "EOPNOTSUPP"]])

AfidStaysUnknown ==
    \A w \in TaskIds, v \in TaskIds :
        /\ IsAuth(w) /\ v \in Tasks /\ w < v
        /\ tasks[v].pc = "start" /\ tasks'[v].pc # "start"
        /\ \E i \in 1 .. Len(GetFidArgs(tasks[v].msg.body)) :
              GetFidArgs(tasks[v].msg.body)[i] = tasks[w].msg.body.afid
        /\ ~ AttachedBefore(v, tasks[w].msg.body.afid)
        => /\ tasks'[v].pc = "reply"
           /\ tasks'[v].response = Err("EBADF")

AuthRefused == [][AuthRefusedStep /\ AfidStaysUnknown]_vars

\* a Tauth was answered, and the request after it, which names its afid,
\* was answered EBADF
AfidUnknownAfterAuth ==
    /\ 2 \in Tasks
    /\ IsAuth(1)
    /\ tasks[2].msg.body.typ = "TGetAttr"
    /\ tasks[2].msg.body.fid = tasks[1].msg.body.afid
    /\ tasks[2].pc = "done"
    /\ Len(out) = 2
    /\ out[1].body = [typ |-> "RlError", ecode |-> "EOPNOTSUPP"]
    /\ out[2].body = [typ |-> "RlError", ecode |-> "EBADF"]

(***************************************************************************)
(* C32.  In unpfs the depth recorded for every registered fid is at most   *)
(* max_depth.  An attach records depth 0.  A walk counts from the depth of *)
(* its source fid over the names it goes through: a name other than "."    *)
(* and ".." adds 1, ".." takes 1 off and stops at 0, "." changes nothing;  *)
(* the depth it records for newfid is that count.  A walk whose count      *)
(* passes max_depth at a name is answered ELOOP and registers nothing.     *)
(***************************************************************************)
\* the names the walk of task w went through when it answered Rwalk: all of
\* them, or those up to the first that did not resolve
WalkedNames(w) ==
    LET names == tasks[w].msg.body.wnames
        k == Len(tasks[w].response.fcall.wqids)
    IN  SubSeq(names, 1, IF k < Len(names) THEN k + 1 ELSE k)

DepthWithinLimit ==
    \A f \in DOMAIN fsfids : fsfids[f].aux.depth \in 0 .. MaxDepth

DepthCountedStep ==
    \A w \in TaskIds :
        /\ (UpdateStep(w) /\ tasks[w].msg.body.typ = "TAttach")
              => fsfids'[tasks[w].msg.body.fid].aux.depth = 0
        /\ (UpdateStep(w) /\ tasks[w].msg.body.typ = "TWalk")
              => fsfids'[tasks[w].msg.body.newfid].aux.depth =
                    DepthAlong(fsfids[tasks[w].msg.body.fid].aux.depth, WalkedNames(w))
        /\ (/\ ReturnStep(w) /\ tasks[w].msg.body.typ = "TWalk"
            /\ \E k \in 1 .. Len(tasks[w].msg.body.wnames) :
                  /\ TooDeep(w, k)
                  /\ \A i \in 1 .. (k - 1) : Resolves(w, i))
              => /\ tasks'[w].response = Err("ELOOP")
                 /\ tasks'[w].pc = "reply"
                 /\ fsfids' = fsfids

DepthTracked == [][DepthWithinLimit' /\ DepthCountedStep]_vars

\* fid 1 is at the depth limit, reached through ".." and ".", and a walk
\* from it to one more name was answered ELOOP
DepthLimitReached ==
    /\ 3 \in Tasks
    /\ 1 \in DOMAIN fsfids
    /\ fsfids[1].aux.depth = MaxDepth
    /\ tasks[3].msg.body.typ = "TWalk"
    /\ tasks[3].msg.body.fid = 1
    /\ tasks[3].pc = "done"
    /\ tasks[3].response = Err("ELOOP")

(***************************************************************************)
(* C33.  For every Treaddir(fid, offset, count) that unpfs answers with    *)
(* Rreaddir, the encoded size of the entries of the reply is at most count *)
(* bytes, whatever the offset and the count, a count smaller than the      *)
(* entries "." and ".." included.                                          *)
(***************************************************************************)
ListingFitsCount ==
    \A w \in Tasks :
        /\ tasks[w].msg.body.typ = "TReadDir"
        /\ tasks[w].response.ok
        /\ tasks[w].response.fcall.typ = "RReadDir"
        => DirEntryDataSize(tasks[w].response.fcall.data) <= tasks[w].msg.body.count

\* with a count that holds "." and "..", the size of every listing is within
\* the count
ListingFitsLargeCount ==
    \A w \in Tasks :
        /\ tasks[w].msg.body.typ = "TReadDir"
        /\ tasks[w].msg.body.count >= 51 \/ tasks[w].msg.body.offset > 0
        /\ tasks[w].response.ok
        /\ tasks[w].response.fcall.typ = "RReadDir"
        => DirEntryDataSize(tasks[w].response.fcall.data) <= tasks[w].msg.body.count

(***************************************************************************)
(* C34, as stated.  With backend calls that return and a writer that takes *)
(* every frame, every task of a connection ends and every request gets its *)
(* reply.                                                                  *)
(***************************************************************************)
Replied(w) ==
    w \in Tasks /\ \E i \in 1 .. Len(out) : out[i].tag = tasks[w].msg.tag

EveryRequestReplied ==
    \A w \in TaskIds : (w \in Tasks) ~> (PcOf(w) = "done" /\ Replied(w))

(***************************************************************************)
(* C34, amended.  With backend calls that return and a writer that takes   *)
(* every frame, every task of a connection ends, and every request whose   *)
(* response is an R-message gets its reply (a response that is no          *)
(* R-message is not sent).  No task waits for the write lock of the fid    *)
(* table with its read guard in hand, and as long as a task has not ended  *)
(* some task can take a step.                                              *)
(***************************************************************************)
WaitsForWrite == {w \in Tasks : tasks[w].pc \in {"update", "wwait"}}

NoDeadlock ==
    /\ WaitsForWrite \cap ReadHeld = {}
    /\ Unfinished # {} => ENABLED TaskStep("any")

EveryTaskEnds ==
    /\ [] NoDeadlock
    /\ \A w \in TaskIds :
          (w \in Tasks) ~>
             (/\ PcOf(w) = "done"
              /\ is_r(ResponseFcall(tasks[w].response)) => Replied(w))

\* three requests, a Tclunk that succeeded among them, have all ended, each
\* with its reply written
ContendedAndDone ==
    /\ Len(tasks) = MaxReqs
    /\ \A w \in Tasks : tasks[w].pc = "done"
    /\ Len(out) = MaxReqs
    /\ fsfids = <<>>
    /\ \E w \in Tasks : tasks[w].msg.body.typ = "TClunk" /\ tasks[w].response.ok

(***************************************************************************)
(* C35.  The fid table of a connection changes in two ways only: a Tclunk  *)
(* whose backend call succeeded removes the fid it names and no other, and *)
(* a Tattach, Twalk, Tauth or TxattrWalk whose backend call succeeded puts *)
(* its new fid in the table and touches no other.  Any other request, and  *)
(* any request that failed, leaves the table as it was.                    *)
(***************************************************************************)
OthersKept(f) ==
    /\ DOMAIN fsfids' \ {f} = DOMAIN fsfids \ {f}
    /\ \A h \in DOMAIN fsfids \ {f} : fsfids'[h] = fsfids[h]

ClunkRemoves(w) ==
    /\ tasks[w].msg.body.typ = "TClunk"
    /\ tasks[w].msg.body.fid \notin DOMAIN fsfids'
    /\ OthersKept(tasks[w].msg.body.fid)

NewfidAdded(w) ==
    /\ tasks[w].msg.body.typ \in {"TAttach", "TWalk", "TAuth", "TxAttrWalk"}
    /\ newfid(tasks[w].msg.body)[1] \in DOMAIN fsfids'
    /\ OthersKept(newfid(tasks[w].msg.body)[1])

SelfWalk(w) ==
    /\ w \in Tasks
    /\ tasks[w].msg.body.typ = "TWalk"
    /\ tasks[w].msg.body.newfid = tasks[w].msg.body.fid

\* every name of the walk of task w was answered with a qid
WalkedThrough(w) ==
    Len(tasks[w].response.fcall.wqids) = Len(tasks[w].msg.body.wnames)

SelfWalkReplacesOnSuccess ==
    [][\A w \in TaskIds :
          SelfWalk(w) =>
             /\ UpdateStep(w) =>
                   /\ tasks[w].response.ok
                   /\ fsfids'[tasks[w].msg.body.fid] = tasks[w].newfid[1]
                   /\ fsfids'[tasks[w].msg.body.fid].aux.file = FALSE
                   /\ WalkedThrough(w) =>
                         fsfids'[tasks[w].msg.body.fid].aux.realpath =
                            fsfids[tasks[w].msg.body.fid].aux.realpath \o
                               tasks[w].msg.body.wnames
                   /\ OthersKept(tasks[w].msg.body.fid)
             /\ (tasks'[w].pc # tasks[w].pc /\ ~ UpdateStep(w)) => fsfids' = fsfids
             /\ (LookupStep(w) /\ tasks[w].msg.body.fid \notin DOMAIN fsfids)
                   => /\ tasks'[w].response = Err("EBADF")
                      /\ tasks'[w].pc = "reply"
             /\ (ReturnStep(w) /\ ~ tasks'[w].response.ok) => tasks'[w].pc = "reply"
      ]_vars

\* fid 0 was attached, opened, walked onto itself to d/f, and then a walk of
\* it onto itself failed: it still denotes d/f
SelfWalkedThenFailed ==
    /\ Len(tasks) = 4
    /\ \A w \in Tasks : tasks[w].pc = "done"
    /\ tasks[2].msg.body.typ = "TlOpen" /\ tasks[2].response.ok
    /\ SelfWalk(3) /\ tasks[3].msg.body.fid = 0 /\ tasks[3].response.ok
    /\ SelfWalk(4) /\ tasks[4].msg.body.fid = 0 /\ ~ tasks[4].response.ok
    /\ 0 \in DOMAIN fsfids
    /\ fsfids[0].aux.realpath = <<"export", "d", "f">>

(***************************************************************************)
(* C37.  Every frame written on a connection is an R-message.  When the    *)
(* backend method of a request returns an FCall that is no R-message, the  *)
(* task ends without writing anything; no T-message goes to the client.    *)
(***************************************************************************)
OnlyRepliesWritten ==
    [][/\ \A i \in 1 .. Len(out') :
             out'[i].body.typ \in RTypes /\ out'[i].body.typ \notin TTypes
       /\ \A w \in TaskIds :
             (FinishStep(w) /\ tasks[w].response.ok
                /\ tasks[w].response.fcall.typ \notin RTypes)
                => out' = out /\ wire' = wire
      ]_vars

\* the backend answered a Tgetattr with an FCall that is no R-message: the
\* task has ended and nothing was written for it, while the request before
\* it has its reply
NonReplyDropped ==
    /\ 2 \in Tasks
    /\ tasks[1].pc = "done" /\ tasks[2].pc = "done"
    /\ tasks[2].response.ok
    /\ tasks[2].response.fcall.typ = "TGetAttr"
    /\ Len(out) = 1
    /\ out[1].tag = tasks[1].msg.tag

(***************************************************************************)
(* C38.  A frame from the client that decodes to an R-message is answered  *)
(* with Rlerror{EOPNOTSUPP} carrying its tag: no backend method is called  *)
(* for it, the fid table stays as it was, and the read loop goes on.       *)
(***************************************************************************)
ReplyReceived(w) == w \in Tasks /\ tasks[w].msg.body.typ \in RTypes

ReplyFromClientRefused ==
    [][\A w \in TaskIds :
          (ReplyReceived(w) /\ tasks'[w].pc # tasks[w].pc) =>
             /\ fsfids' = fsfids
             /\ rdloop' = "running"
             /\ tasks'[w].pc \in {"reply", "done"}
             /\ tasks'[w].fut = NoFuture
             /\ tasks'[w].response = Err("EOPNOTSUPP")
             /\ FinishStep(w) =>
                   out' = Append(out, [tag |-> tasks[w].msg.tag,
                                       body |-> [typ |-> "RlError",
                                                 ecode |-> "EOPNOTSUPP"]])
      ]_vars

\* with fid 0 attached, an Rlerror from the client was answered EOPNOTSUPP;
\* fid 0 is still registered and the loop is running
ReplyAnsweredEOPNOTSUPP ==
    /\ Len(tasks) = 3
    /\ tasks[3].msg.body.typ = "RlError"
    /\ tasks[3].pc = "done"
    /\ Len(out) = 3
    /\ out[3] = [tag |-> tasks[3].msg.tag,
                 body |-> [typ |-> "RlError", ecode |-> "EOPNOTSUPP"]]
    /\ DOMAIN fsfids = {0}
    /\ rdloop = "running"

(***************************************************************************)
(* C39.  In unpfs, when a Twalk is answered Rwalk with k qids, the path    *)
(* stored for the newfid it registers is the path of the source fid        *)
(* extended by the first k names of the walk, and by no name whose lookup  *)
(* failed.                                                                 *)
(***************************************************************************)
WalkRegisters(w) ==
    /\ UpdateStep(w)
    /\ tasks[w].msg.body.typ = "TWalk"
    /\ tasks[w].response.ok
    /\ tasks[w].response.fcall.typ = "RWalk"

NewfidPathIsResolvedPrefix ==
    [][\A w \in TaskIds :
          WalkRegisters(w) =>
             LET body == tasks[w].msg.body
                 k    == Len(tasks[w].response.fcall.wqids)
             IN  /\ k <= Len(body.wnames)
                 /\ body.newfid \in DOMAIN fsfids'
                 /\ fsfids'[body.newfid].aux.realpath =
                       fsfids[body.fid].aux.realpath \o SubSeq(body.wnames, 1, k)
      ]_vars

\* the same for the walks of which every name resolved
NewfidPathOfFullWalk ==
    [][\A w \in TaskIds :
          (/\ WalkRegisters(w)
           /\ Len(tasks[w].response.fcall.wqids) = Len(tasks[w].msg.body.wnames))
             => fsfids'[tasks[w].msg.body.newfid].aux.realpath =
                   fsfids[tasks[w].msg.body.fid].aux.realpath \o
                   tasks[w].msg.body.wnames
      ]_vars

(***************************************************************************)
(* C40.  In unpfs, after any sequence of Tattach and Twalk requests, names *)
(* ".." and "." included, the path stored for every registered fid stays   *)
(* inside the exported root directory: no fid denotes a path above or      *)
(* outside realroot.                                                       *)
(***************************************************************************)
\* the host resolves the path to realroot or to an entry below it
InsideRoot(path) ==
    /\ Len(Resolve(path)) >= Len(realroot)
    /\ SubSeq(Resolve(path), 1, Len(realroot)) = realroot

FidsStayInsideRoot ==
    \A f \in DOMAIN fsfids :
        Resolve(fsfids[f].aux.realpath) # NoEnt => InsideRoot(fsfids[f].aux.realpath)

\* the same for the fids registered by walks that name no ".."
FidsReachedWithoutDotDot ==
    \A f \in DOMAIN fsfids :
        (/\ Resolve(fsfids[f].aux.realpath) # NoEnt
         /\ \A i \in 1 .. Len(fsfids[f].aux.realpath) :
               fsfids[f].aux.realpath[i] # "..")
           => InsideRoot(fsfids[f].aux.realpath)

====
